---------------------------- MODULE Spec2Model ----------------------------
(***************************************************************************)
(* A model of the log aggregation scripts of unipept-utilities:            *)
(*   - the HALog collector (processCommand, processEndpoints, processNodes *)
(*     and the MySQL connection they queue their statements on);           *)
(*   - the live exporter halog-live.js (filterRecentLogLines,              *)
(*     avgLatencyByNodeFromRecent, countRequestsByNode, main,              *)
(*     sendToGraphite).                                                    *)
(*                                                                         *)
(* JavaScript strings are sequences of one-character strings.  JavaScript  *)
(* numbers are pairs <<n, d>>: the reduced fraction n/d when d > 0, NaN    *)
(* when n = d = 0, +Infinity <<1, 0>> and -Infinity <<-1, 0>>.  Arithmetic *)
(* on them is exact (IEEE rounding is not modelled).                       *)
(***************************************************************************)
EXTENDS Integers, Sequences, FiniteSets, TLC

VARIABLES
    \* ---- collector (one process per run) ----
    cmd,          \* the yargs command of the runs: "endpoints", "nodes" or "sources"
    daysAgo,      \* the value of --days-ago on the command line of the runs
    halogOut,     \* the shell command of the runs: whether it exits with 0, and its stdout split at "\n"
    today,        \* CURDATE() of the database server
    runs,         \* number of collector processes started so far
    pc,           \* position of the current collector process
    lines,        \* processCommand's result
    idx,          \* next element of lines the for loop visits (1-based)
    stats,        \* the Map, as a sequence of entries in insertion order
    sourceCounts, \* desktopCounts, cliCounts, webCounts, otherCounts of processSources
    queue,        \* statements queued on the connection, not yet executed
    table,        \* rows of the command's table, in insertion order
    exitCode,     \* exit status of the last process that ended
    tableAtStart, \* history: table when the current process started
    insertErrors, \* history: inserts of the current process that reported an error
    thrown,       \* history: the exception that ended the current process, "" when none
    \* ---- live exporter (one process) ----
    logFile,      \* the HAProxy log: whether it can be read, and its lines
    now,          \* Date.now(), in milliseconds
    localOffset,  \* offset of the process's time zone, in seconds east of UTC
    halogCount,   \* `cat <log> | halog -s -1 -H -srv`: exit status 0 or not, and its stdout
    halogAvg,     \* `halog -s -1 -H -srv` on the filtered lines: the same
    livePc,       \* position of the exporter process
    nodeCounts,   \* counts, the result of countRequestsByNode, in insertion order
    metrics,      \* the metrics main collects
    filtered,     \* the lines filterRecentLogLines kept
    avgLines,     \* the lines processCommandWithInput returned
    avgIdx,       \* next element of avgLines the loop visits
    avgStats,     \* the Map of avgLatencyByNodeFromRecent
    avgs,         \* result of avgLatencyByNodeFromRecent as main holds it
    liveExit,     \* process.exitCode, 0 when never set
    liveThrown,   \* the exceptions raised so far, in order
    avgHalogCalls,\* history: summarizer invocations made by avgLatencyByNodeFromRecent
    sock,         \* state of the socket of sendToGraphite
    resolved,     \* the flag of sendToGraphite
    promise,      \* the promise of sendToGraphite
    sent,         \* the payload written to the socket, one element per line
    connections,  \* history: connections opened
    sentAt,       \* history: Date.now() as the connect callback read it, 0 before
    sockLog,      \* history: the callbacks of sendToGraphite that ran, and its calls of resolve and reject
    \* ---- update_uniprot.sh (one invocation) ----
    shArgv,       \* the arguments of the invocation, "$@" before the shift
    shPc,         \* position of the script
    shOpts,       \* the option variables (SCRATCH_DIR, OUTPUT_DIR, ...)
    shTables,     \* the files in ${OUTPUT_DIR}/uniprot-<version>/tables
    shExit,       \* exit status of the script, -1 while it runs
    shTrace,      \* history: the functions called so far, with their status and how they ended
    \* ---- halog-collector/collect.js, the collector that reads stdin (one process) ----
    colParses,    \* FALSE: the file as written, whose line 65 lacks a closing parenthesis; TRUE: that line closed
    colArgc,      \* process.argv.length
    rlInput,      \* the lines that arrive on stdin before it ends
    rlPos,        \* the next line readline emits (1-based)
    sqlPending,   \* the inserts queued on the connection, their callbacks not yet called
    sqlDone,      \* the inserts whose callback was called without error
    colPc,        \* position of the process
    colExit       \* exit status of the process, -1 while it runs

cvars == <<cmd, daysAgo, halogOut, today, runs, pc, lines, idx, stats, sourceCounts,
           queue, table, exitCode, tableAtStart, insertErrors, thrown>>

lvars == <<logFile, now, localOffset, halogCount, halogAvg, livePc, nodeCounts, metrics,
           filtered, avgLines, avgIdx, avgStats, avgs, liveExit, liveThrown,
           avgHalogCalls, sock, resolved, promise, sent, connections, sentAt,
           sockLog>>

uvars == <<shArgv, shPc, shOpts, shTables, shExit, shTrace>>

svars == <<colParses, colArgc, rlInput, rlPos, sqlPending, sqlDone, colPc, colExit>>

vars == <<cvars, lvars, uvars, svars>>

-----------------------------------------------------------------------------
(* Bounds of the model *)

\* data rows the summarizer prints in one invocation
MaxRows == 2
\* collector processes run one after the other
MaxRuns == 2
\* days the database clock may advance while the runs take place
MaxDays == 1
\* lines of the HAProxy log
MaxLogLines == 2

-----------------------------------------------------------------------------
(* JavaScript numbers *)

NaN == <<0, 0>>

Abs(x) == IF x < 0 THEN -x ELSE x

Sgn(x) == IF x < 0 THEN -1 ELSE IF x > 0 THEN 1 ELSE 0

RECURSIVE Gcd(_, _)
Gcd(a, b) == IF b = 0 THEN a ELSE Gcd(b, a % b)

\* the number n/d, reduced; d = 0 gives NaN or an infinity
Norm(n, d) ==
    IF d = 0 THEN <<Sgn(n), 0>>
    ELSE LET g == Gcd(Abs(n), Abs(d))
         IN  <<(Sgn(d) * n) \div g, Abs(d) \div g>>

Num(n) == <<n, 1>>

IsFinite(x) == x[2] # 0

IsNaN(x) == x = NaN

\* x + y
Add(x, y) ==
    IF x[2] = 0 /\ y[2] = 0
    THEN (IF x[1] = y[1] THEN x ELSE NaN)
    ELSE Norm(x[1] * y[2] + y[1] * x[2], x[2] * y[2])

\* x * y
Mul(x, y) == Norm(x[1] * y[1], x[2] * y[2])

\* x - y
Sub(x, y) == Add(x, <<-y[1], y[2]>>)

\* x / y
Div(x, y) == Mul(x, Norm(y[2], y[1]))

\* x > y, false when either is NaN
Gt(x, y) ==
    /\ ~IsNaN(x) /\ ~IsNaN(y)
    /\ IF x[2] = 0 \/ y[2] = 0
       THEN (IF x[2] = 0 /\ y[2] = 0 THEN x[1] > y[1]
             ELSE IF x[2] = 0 THEN x[1] > 0 ELSE y[1] < 0)
       ELSE x[1] * y[2] > y[1] * x[2]

-----------------------------------------------------------------------------
(* JavaScript strings *)

Digits == {"0", "1", "2", "3", "4", "5", "6", "7", "8", "9"}

DigitVal(c) ==
    CASE c = "0" -> 0 [] c = "1" -> 1 [] c = "2" -> 2 [] c = "3" -> 3
      [] c = "4" -> 4 [] c = "5" -> 5 [] c = "6" -> 6 [] c = "7" -> 7
      [] c = "8" -> 8 [] c = "9" -> 9

WhiteSpace == {" ", "\t"}

\* fields[col] of a shorter array
Undefined == <<"undefined">>

Drop(s, n) == SubSeq(s, n + 1, Len(s))

Take(s, n) == SubSeq(s, 1, n)

\* s.startsWith(p)
StartsWith(s, p) == Len(p) <= Len(s) /\ Take(s, Len(p)) = p

\* s.indexOf(p), 1-based; 0 when p does not occur
IndexOf(s, p) ==
    LET hits == {k \in 1..(Len(s) - Len(p) + 1) : SubSeq(s, k, k + Len(p) - 1) = p}
    IN  IF hits = {} THEN 0 ELSE CHOOSE k \in hits : \A j \in hits : k <= j

\* s.includes(p)
Includes(s, p) == IndexOf(s, p) # 0

\* s.replace(p, r) with a string pattern: the first occurrence only
ReplaceFirst(s, p, r) ==
    LET k == IndexOf(s, p)
    IN  IF k = 0 THEN s ELSE Take(s, k - 1) \o r \o Drop(s, k + Len(p) - 1)

\* s.split(sep) with a one-character separator
RECURSIVE Split(_, _)
Split(s, sep) ==
    LET k == IndexOf(s, <<sep>>)
    IN  IF k = 0 THEN <<s>> ELSE <<Take(s, k - 1)>> \o Split(Drop(s, k), sep)

\* s.trimEnd()
RECURSIVE TrimEnd(_)
TrimEnd(s) ==
    IF s # <<>> /\ s[Len(s)] \in WhiteSpace THEN TrimEnd(Take(s, Len(s) - 1)) ELSE s

\* s.trimStart()
RECURSIVE TrimStart(_)
TrimStart(s) == IF s # <<>> /\ s[1] \in WhiteSpace THEN TrimStart(Tail(s)) ELSE s

\* the longest prefix of s made of digits
RECURSIVE DigitPrefix(_)
DigitPrefix(s) ==
    IF s # <<>> /\ s[1] \in Digits THEN <<s[1]>> \o DigitPrefix(Tail(s)) ELSE <<>>

\* the value of a digit string, read after the digits acc
RECURSIVE DigitsValue(_, _)
DigitsValue(ds, acc) ==
    IF ds = <<>> THEN acc ELSE DigitsValue(Tail(ds), 10 * acc + DigitVal(ds[1]))

RECURSIVE Pow10(_)
Pow10(k) == IF k = 0 THEN 1 ELSE 10 * Pow10(k - 1)

\* Number.parseInt(s): leading white space, a sign, then the digits as far
\* as they go; NaN when there is none (the inputs of the model carry no 0x
\* prefix)
ParseInt(s) ==
    LET t    == TrimStart(s)
        neg  == t # <<>> /\ t[1] = "-"
        body == IF t # <<>> /\ t[1] \in {"-", "+"} THEN Tail(t) ELSE t
        ds   == DigitPrefix(body)
    IN  IF ds = <<>> THEN NaN
        ELSE Num((IF neg THEN -1 ELSE 1) * DigitsValue(ds, 0))

\* Number.parseFloat(s): leading white space, a sign, digits, a fraction
\* (the inputs of the model carry no exponent and no Infinity literal)
ParseFloat(s) ==
    LET t    == TrimStart(s)
        neg  == t # <<>> /\ t[1] = "-"
        body == IF t # <<>> /\ t[1] \in {"-", "+"} THEN Tail(t) ELSE t
        ip   == DigitPrefix(body)
        rest == Drop(body, Len(ip))
        fp   == IF rest # <<>> /\ rest[1] = "." THEN DigitPrefix(Tail(rest)) ELSE <<>>
    IN  IF ip = <<>> /\ fp = <<>> THEN NaN
        ELSE Norm((IF neg THEN -1 ELSE 1) * DigitsValue(ip \o fp, 0), Pow10(Len(fp)))

-----------------------------------------------------------------------------
(* The summarizer's output *)

\* the elements of ss joined by the character sep
RECURSIVE Join(_, _)
Join(ss, sep) ==
    IF ss = <<>> THEN <<>>
    ELSE IF Len(ss) = 1 THEN ss[1]
    ELSE ss[1] \o <<sep>> \o Join(Tail(ss), sep)

\* all sequences over S of length at most n
RECURSIVE SeqsUpTo(_, _)
SeqsUpTo(S, n) ==
    IF n = 0 THEN {<<>>}
    ELSE LET shorter == SeqsUpTo(S, n - 1)
         IN  shorter \cup {Append(q, x) : q \in {r \in shorter : Len(r) = n - 1}, x \in S}

HeaderLine == <<"#">>

\* the status message halog ends with
StatusLine ==
    <<"2", " ", "l", "i", "n", "e", "s", " ", "i", "n", ",", " ",
      "2", " ", "l", "i", "n", "e", "s", " ", "o", "u", "t", ",", " ",
      "0", " ", "p", "a", "r", "s", "i", "n", "g", " ",
      "e", "r", "r", "o", "r", "s">>

\* stdout of a summarizer run printing the data lines rows: one header
\* line, the rows, one status line, each ended by "\n"; given as
\* stdout.split("\n"), whose last element is the empty string after the
\* final "\n"
Stdout(rows) == <<HeaderLine>> \o rows \o <<StatusLine, <<>>>>

\* a line of `halog -u -H`: req err ttot tavg oktot okavg bavg btot src
EndpointRow(req, err, tavg, src) ==
    Join(<<req, err, <<"0">>, tavg, <<"0">>, <<"0">>, <<"0">>, <<"0">>, src>>, " ")

\* a line of `halog -H -srv`:
\* srv_name 1xx 2xx 3xx 4xx 5xx other tot_req req_ok pct_ok avg_ct avg_rt
NodeRow(srv, tot, ok, avgRt) ==
    Join(<<srv, <<"0">>, <<"0">>, <<"0">>, <<"0">>, <<"0">>, <<"0">>,
           tot, ok, <<"0">>, <<"0">>, avgRt>>, " ")

HttpsHost ==
    <<"h", "t", "t", "p", "s", ":", "/", "/", "a", "p", "i", ".", "u", "n", "i",
      "p", "e", "p", "t", ".", "u", "g", "e", "n", "t", ".", "b", "e">>

HttpHost ==
    <<"h", "t", "t", "p", ":", "/", "/", "a", "p", "i", ".", "u", "n", "i",
      "p", "e", "p", "t", ".", "u", "g", "e", "n", "t", ".", "b", "e">>

ApiA == <<"/", "a", "p", "i">>
MpaB == <<"/", "m", "p", "a">>

EndpointRows ==
    { EndpointRow(<<"1", "0">>, <<"0">>, <<"2", ".", "0">>, ApiA),
      EndpointRow(<<"1", "0">>, <<"1">>, <<"4", ".", "0">>, ApiA),
      EndpointRow(<<"0">>, <<"0">>, <<"7">>, ApiA),
      EndpointRow(<<"z">>, <<"0">>, <<"2">>, ApiA),
      EndpointRow(<<"5">>, <<"1">>, <<"z">>, ApiA),
      EndpointRow(<<"4">>, <<"1">>, <<"6">>, MpaB),
      EndpointRow(<<"3">>, <<"0">>, <<"1">>, <<"/", "x">>),
      EndpointRow(<<"2">>, <<"0">>, <<"3">>, HttpsHost \o <<"/">> \o ApiA),
      EndpointRow(<<"6">>, <<"0">>, <<"5">>, ApiA \o <<"/">> \o MpaB \o <<"/">> \o <<"/", "x">>),
      <<"7", " ", "0">> }

\* stdout of `... | sort | uniq -c` printing the lines rows, each ended by
\* "\n" (neither a header nor a status line), given as stdout.split("\n")
UniqStdout(rows) == rows \o << <<>> >>

\* a line of `uniq -c`: the count, right-aligned, and the user agent
UniqRow(count, userAgent) == <<" ", " ">> \o count \o <<" ">> \o userAgent

SourceRows ==
    { UniqRow(<<"3">>,
              <<"c", "u", "r", "l", "/", "8", ".", "0">>),
      UniqRow(<<"2">>,
              <<"M", "o", "z", "i", "l", "l", "a", "/", "5", ".", "0", " ", "C", "h", "r", "o", "m", "e", "/", "1", "1", "8">>),
      UniqRow(<<"4">>,
              <<"M", "o", "z", "i", "l", "l", "a", "/", "5", ".", "0", " ", "u", "n", "i", "p", "e", "p", "t", "d", "e", "s", "k", "t", "o", "p", "/", "1", ".", "2">>),
      UniqRow(<<"5">>,
              <<"U", "n", "i", "p", "e", "p", "t", " ", "C", "L", "I">>),
      UniqRow(<<"6">>,
              <<"u", "n", "i", "p", "e", "p", "t", "-", "c", "l", "i", "/", "0", ".", "9">>),
      UniqRow(<<"7">>,
              <<"C", "h", "r", "o", "m", "e", " ", "U", "n", "i", "p", "e", "p", "t", "D", "e", "s", "k", "t", "o", "p">>),
      UniqRow(<<"8">>,
              <<"U", "n", "i", "p", "e", "p", "t", " ", "C", "L", "I", " ", "F", "i", "r", "e", "f", "o", "x">>) }

Rick  == <<"b", "/", "r", "i", "c", "k">>
Patty == <<"b", "/", "p", "a", "t", "t", "y">>

NodeRows ==
    { NodeRow(Rick, <<"1", "0">>, <<"1", "0">>, <<"2", ".", "0">>),
      NodeRow(Rick, <<"1", "0">>, <<"9">>, <<"4", ".", "0">>),
      NodeRow(Rick, <<"0">>, <<"0">>, <<"7">>),
      NodeRow(Rick, <<"z">>, <<"0">>, <<"2">>),
      NodeRow(Rick, <<"5">>, <<"4">>, <<"z">>),
      NodeRow(Patty, <<"4">>, <<"3">>, <<"6">>),
      NodeRow(<<"b", "/", "x">>, <<"3">>, <<"3">>, <<"1">>),
      NodeRow(<<"r", "i", "c", "k", "/", "x", "/", "y">>, <<"2">>, <<"2">>, <<"5">>),
      <<"r", "i", "c", "k">> }

-----------------------------------------------------------------------------
(* Collector: processCommand *)

\* the lines of stdout after the first, each trimmed at its end
RECURSIVE TrimAll(_)
TrimAll(ls) == IF ls = <<>> THEN <<>> ELSE <<TrimEnd(ls[1])>> \o TrimAll(Tail(ls))

\* lines.splice(-1, 1): the array without its last element
SpliceLast(ls) == IF ls = <<>> THEN <<>> ELSE Take(ls, Len(ls) - 1)

\* processCommand of the collector, on stdout.split("\n")
ProcessCommand(out) == SpliceLast(TrimAll(Tail(out)))

-----------------------------------------------------------------------------
(* Collector: the Map of statistics *)

\* fields[col], col counted from 0
Field(fields, col) == IF col < Len(fields) THEN fields[col + 1] ELSE Undefined

\* stats.has(key)
MapHas(m, key) == \E k \in 1..Len(m) : m[k].key = key

\* stats.get(key), for a key the map has
MapGet(m, key) == m[CHOOSE k \in 1..Len(m) : m[k].key = key]

\* stats.set(key, stat): a key the map has keeps its place
MapSet(m, key, stat) ==
    LET e == [key |-> key, totalReqCount |-> stat.totalReqCount,
              badReqCount |-> stat.badReqCount, avgTime |-> stat.avgTime]
    IN  IF MapHas(m, key)
        THEN [k \in 1..Len(m) |-> IF m[k].key = key THEN e ELSE m[k]]
        ELSE Append(m, e)

\* the statistic stored for a key that recurs: cur is the row's own
\* statistic, old the entry of the map
MergeStat_badSubtracted(cur, old) ==
    LET total == Add(cur.totalReqCount, old.totalReqCount)
    IN  [totalReqCount |-> total,
         badReqCount   |-> Sub(cur.badReqCount, old.badReqCount),
         avgTime       |-> Div(Add(Mul(cur.avgTime, cur.totalReqCount),
                                   Mul(old.avgTime, old.totalReqCount)),
                               Add(total, old.totalReqCount))]

MergeStat(cur, old) ==
    LET total == Add(cur.totalReqCount, old.totalReqCount)
    IN  [totalReqCount |-> total,
         badReqCount   |-> Add(cur.badReqCount, old.badReqCount),
         avgTime       |-> Div(Add(Mul(cur.avgTime, cur.totalReqCount),
                                   Mul(old.avgTime, old.totalReqCount)),
                               Add(total, old.totalReqCount))]

\* the map after a row with statistic cur was read for key
FoldStat(m, key, cur) ==
    MapSet(m, key, IF MapHas(m, key) THEN MergeStat(cur, MapGet(m, key)) ELSE cur)

-----------------------------------------------------------------------------
(* Collector: processEndpoints *)

Endpoints_totalReqCountCol == 0
Endpoints_badReqCountCol == 1
Endpoints_avgTimeCol == 3
Endpoints_endpointCol == 8

accepted_endpoints ==
    { <<"/", "m", "p", "a">>,
      <<"/", "p", "r", "i", "v", "a", "t", "e", "_", "a", "p", "i">>,
      <<"/", "a", "p", "i">> }

\* the endpoint of a row: the two hosts and the first "//" replaced
NormalizeEndpoint(raw) ==
    ReplaceFirst(ReplaceFirst(ReplaceFirst(raw, HttpsHost, <<>>), HttpHost, <<>>),
                 <<"/", "/">>, <<"/">>)

\* one round of the loop of processEndpoints: what the line does to the map.
\* throws: fields[endpointCol] is undefined and .replace raises a TypeError.
EndpointsLine(m, line) ==
    LET fields        == Split(line, " ")
        totalReqCount == ParseInt(Field(fields, Endpoints_totalReqCountCol))
        badReqCount   == ParseInt(Field(fields, Endpoints_badReqCountCol))
        avgTime       == ParseFloat(Field(fields, Endpoints_avgTimeCol))
        raw           == Field(fields, Endpoints_endpointCol)
        endpoint      == NormalizeEndpoint(raw)
    IN  IF raw = Undefined THEN [throws |-> TRUE, stats |-> m]
        ELSE IF \E v \in accepted_endpoints : Includes(endpoint, v)
        THEN [throws |-> FALSE,
              stats  |-> FoldStat(m, endpoint,
                                  [totalReqCount |-> totalReqCount,
                                   badReqCount   |-> badReqCount,
                                   avgTime       |-> avgTime])]
        ELSE [throws |-> FALSE, stats |-> m]

-----------------------------------------------------------------------------
(* Collector: processNodes *)

Nodes_serverNameCol == 0
Nodes_totReqCountCol == 7
Nodes_successfulReqCountCol == 8
Nodes_avgTimeCol == 11

acceptedNodes ==
    { <<"p", "a", "t", "t", "y">>,
      <<"s", "e", "l", "m", "a">>,
      <<"r", "i", "c", "k">>,
      <<"s", "h", "e", "r", "l", "o", "c", "k">> }

\* one round of the loop of processNodes
NodesLine(m, line) ==
    LET fields             == Split(line, " ")
        rawName            == Field(fields, Nodes_serverNameCol)
        serverName         == Field(Split(rawName, "/"), 1)
        totalReqCount      == ParseInt(Field(fields, Nodes_totReqCountCol))
        successfulReqCount == ParseInt(Field(fields, Nodes_successfulReqCountCol))
        badReqCount        == Sub(totalReqCount, successfulReqCount)
        avgTime            == ParseFloat(Field(fields, Nodes_avgTimeCol))
    IN  IF ~ \E n \in acceptedNodes : Includes(rawName, n)
        THEN [throws |-> FALSE, stats |-> m]
        ELSE [throws |-> FALSE,
              stats  |-> FoldStat(m, serverName,
                                  [totalReqCount |-> totalReqCount,
                                   badReqCount   |-> badReqCount,
                                   avgTime       |-> avgTime])]

\* one round of the loop of the command c ("endpoints" or "nodes")
CollectorLine(c, m, line) ==
    IF c = "endpoints" THEN EndpointsLine(m, line) ELSE NodesLine(m, line)

-----------------------------------------------------------------------------
(* Collector: processSources *)

UpperCase ==
    <<"A", "B", "C", "D", "E", "F", "G", "H", "I", "J", "K", "L", "M",
      "N", "O", "P", "Q", "R", "S", "T", "U", "V", "W", "X", "Y", "Z">>

LowerCase ==
    <<"a", "b", "c", "d", "e", "f", "g", "h", "i", "j", "k", "l", "m",
      "n", "o", "p", "q", "r", "s", "t", "u", "v", "w", "x", "y", "z">>

\* s.toLowerCase()
ToLowerCase(s) ==
    [k \in 1..Len(s) |->
        IF \E u \in 1..Len(UpperCase) : UpperCase[u] = s[k]
        THEN LowerCase[CHOOSE u \in 1..Len(UpperCase) : UpperCase[u] = s[k]]
        ELSE s[k]]

\* the alternatives of the regular expressions of matchesBrowser
BrowserTokens ==
    { <<"c", "h", "r", "o", "m", "e">>, <<"c", "h", "r", "o", "m", "i", "u", "m">>,
      <<"c", "r", "i", "o", "s">>,
      <<"f", "i", "r", "e", "f", "o", "x">>, <<"f", "x", "i", "o", "s">>,
      <<"s", "a", "f", "a", "r", "i">>,
      <<"o", "p", "r">>,
      <<"e", "d", "g">> }

\* matchesBrowser(userAgent): one of the case-insensitive tests matches
matchesBrowser(userAgent) ==
    \E t \in BrowserTokens : Includes(ToLowerCase(userAgent), t)

\* the class whose counter a user agent adds to
SourceOf_browserFirst(userAgent) ==
    IF \E t \in BrowserTokens : Includes(ToLowerCase(userAgent), t) THEN "web"
    ELSE IF Includes(ToLowerCase(userAgent),
                     <<"u", "n", "i", "p", "e", "p", "t", "d", "e", "s", "k", "t", "o", "p">>)
    THEN "desktop"
    ELSE IF Includes(ToLowerCase(userAgent),
                     <<"u", "n", "i", "p", "e", "p", "t", " ", "c", "l", "i">>)
    THEN "cli"
    ELSE "other"

SourceOf_hyphenCli(userAgent) ==
    IF Includes(ToLowerCase(userAgent),
                <<"u", "n", "i", "p", "e", "p", "t", "d", "e", "s", "k", "t", "o", "p">>)
    THEN "desktop"
    ELSE IF \/ Includes(ToLowerCase(userAgent),
                        <<"u", "n", "i", "p", "e", "p", "t", " ", "c", "l", "i">>)
            \/ Includes(ToLowerCase(userAgent),
                        <<"u", "n", "i", "p", "e", "p", "t", "-", "c", "l", "i">>)
    THEN "cli"
    ELSE IF \E t \in BrowserTokens : Includes(ToLowerCase(userAgent), t) THEN "web"
    ELSE "other"

SourceOf(userAgent) ==
    IF Includes(ToLowerCase(userAgent),
                <<"u", "n", "i", "p", "e", "p", "t", "d", "e", "s", "k", "t", "o", "p">>)
    THEN "desktop"
    ELSE IF Includes(ToLowerCase(userAgent),
                     <<"u", "n", "i", "p", "e", "p", "t", " ", "c", "l", "i">>)
    THEN "cli"
    ELSE IF matchesBrowser(userAgent) THEN "web"
    ELSE "other"

\* one round of the loop of processSources: the counters after the line
SourcesLine(cnt, line) ==
    LET trimmed   == TrimEnd(TrimStart(line))
        fields    == Split(trimmed, " ")
        counts    == ParseInt(Field(fields, 0))
        userAgent == Join(Tail(fields), " ")
        source    == SourceOf(userAgent)
    IN  [cnt EXCEPT ![source] = Add(cnt[source], counts)]

\* desktopCounts = cliCounts = webCounts = otherCounts = 0
ZeroCounts == [desktop |-> Num(0), cli |-> Num(0), web |-> Num(0), other |-> Num(0)]

-----------------------------------------------------------------------------
(* Collector: the statements sent to the database *)

\* the statement that is to remove the day's rows (sent without a callback)
RemoveDayStatement == [verb |-> "DROP", daysAgo |-> 1, key |-> <<>>, values |-> <<>>]

\* the INSERT of one entry of the map: the key, then req_successful,
\* req_error and avg_duration
InsertStatement(e) ==
    [verb |-> "INSERT", daysAgo |-> 1, key |-> e.key,
     values |-> <<Sub(e.totalReqCount, e.badReqCount), e.badReqCount, e.avgTime>>]

\* the INSERT of one class of processSources: the source, then req_total
SourceInsertStatement(sourceName, counts) ==
    [verb |-> "INSERT", daysAgo |-> 1, key |-> sourceName, values |-> <<counts>>]

\* db.end()
QuitStatement == [verb |-> "QUIT", daysAgo |-> 0, key |-> <<>>, values |-> <<>>]

RECURSIVE InsertStatements(_)
InsertStatements(m) ==
    IF m = <<>> THEN <<>> ELSE <<InsertStatement(m[1])>> \o InsertStatements(Tail(m))

\* the INSERTs of processSources, in the order of its Map literal
SourceInsertStatements(cnt) ==
    << SourceInsertStatement(<<"d", "e", "s", "k", "t", "o", "p">>, cnt.desktop),
       SourceInsertStatement(<<"c", "l", "i">>, cnt.cli),
       SourceInsertStatement(<<"w", "e", "b">>, cnt.web),
       SourceInsertStatement(<<"o", "t", "h", "e", "r">>, cnt.other) >>

\* everything a command queues on the connection before it returns
QueuedStatements(c, m, cnt) ==
    <<RemoveDayStatement>>
      \o (IF c = "sources" THEN SourceInsertStatements(cnt) ELSE InsertStatements(m))
      \o <<QuitStatement>>

\* SUBDATE(CURDATE(), n)
SubDate(curdate, n) == curdate - n

\* the rows of the table after the server executed a statement it accepts;
\* DELETE FROM t WHERE date = d removes the rows of d, INSERT adds a row
ServerApply(stmt, rows, curdate) ==
    CASE stmt.verb = "DELETE" ->
           SelectSeq(rows, LAMBDA r : r.date # SubDate(curdate, stmt.daysAgo))
      [] stmt.verb = "INSERT" ->
           Append(rows, [date |-> SubDate(curdate, stmt.daysAgo), key |-> stmt.key,
                         values |-> stmt.values])
      [] OTHER -> rows

\* the server's parser: DROP is followed by an object kind (TABLE, INDEX,
\* ...), so `DROP FROM t WHERE ...` is rejected as a syntax error
ServerRejects(stmt) == stmt.verb \notin {"DELETE", "INSERT", "QUIT"}

\* the callback of an INSERT: process.exit(3) on an error
InsertCallback_logOnly(err) == [exit |-> FALSE, code |-> 0]

InsertCallback(err) == IF err THEN [exit |-> TRUE, code |-> 3] ELSE [exit |-> FALSE, code |-> 0]

-----------------------------------------------------------------------------
(* Collector: the process *)

\* the values of --days-ago the runs are started with: the default and the
\* README's example of a log from two days ago
DaysAgoOptions == {1, 2}

InitCollector ==
    /\ cmd \in {"endpoints", "nodes", "sources"}
    /\ daysAgo \in DaysAgoOptions
    /\ \E ok \in BOOLEAN :
         \E rows \in SeqsUpTo(CASE cmd = "endpoints" -> EndpointRows
                                 [] cmd = "nodes" -> NodeRows
                                 [] cmd = "sources" -> SourceRows, MaxRows) :
            halogOut = [ok |-> ok,
                        out |-> IF ~ok THEN <<>>
                                ELSE IF cmd = "sources" THEN UniqStdout(rows)
                                ELSE Stdout(rows)]
    /\ today = 1
    /\ runs = 0
    /\ pc = "idle"
    /\ lines = <<>>
    /\ idx = 1
    /\ stats = <<>>
    /\ sourceCounts = ZeroCounts
    /\ queue = <<>>
    /\ table = <<>>
    /\ exitCode = 0
    /\ tableAtStart = <<>>
    /\ insertErrors = 0
    /\ thrown = ""

\* the process starts and the command calls processCommand; execSync throws
\* when the shell command exits non-zero, and nothing catches it
StartRun ==
    /\ UNCHANGED <<lvars, uvars, svars>>
    /\ pc \in {"idle", "exited"}
    /\ runs < MaxRuns
    /\ runs' = runs + 1
    /\ tableAtStart' = table
    /\ insertErrors' = 0
    /\ stats' = <<>>
    /\ sourceCounts' = ZeroCounts
    /\ queue' = <<>>
    /\ idx' = 1
    /\ IF halogOut.ok
       THEN /\ lines' = ProcessCommand(halogOut.out)
            /\ pc' = "fold"
            /\ thrown' = ""
            /\ exitCode' = 0
       ELSE /\ lines' = <<>>
            /\ pc' = "exited"
            /\ thrown' = "execSync"
            /\ exitCode' = 1
    /\ UNCHANGED <<cmd, daysAgo, halogOut, today, table>>

\* one round of `for (const line of lines)`
FoldLine ==
    /\ UNCHANGED <<lvars, uvars, svars>>
    /\ pc = "fold"
    /\ idx <= Len(lines)
    /\ cmd \in {"endpoints", "nodes"}
    /\ LET r == CollectorLine(cmd, stats, lines[idx])
       IN  IF r.throws
           THEN /\ pc' = "exited"
                /\ thrown' = "TypeError"
                /\ exitCode' = 1
                /\ UNCHANGED <<stats, idx>>
           ELSE /\ stats' = r.stats
                /\ idx' = idx + 1
                /\ UNCHANGED <<pc, thrown, exitCode>>
    /\ UNCHANGED <<cmd, daysAgo, halogOut, today, runs, lines, sourceCounts, queue, table,
                   tableAtStart, insertErrors>>

\* one round of `for (const line of userAgentCounts)`
FoldSourceLine ==
    /\ UNCHANGED <<lvars, uvars, svars>>
    /\ pc = "fold"
    /\ idx <= Len(lines)
    /\ cmd = "sources"
    /\ sourceCounts' = SourcesLine(sourceCounts, lines[idx])
    /\ idx' = idx + 1
    /\ UNCHANGED <<cmd, daysAgo, halogOut, today, runs, pc, lines, stats, queue, table,
                   exitCode, tableAtStart, insertErrors, thrown>>

\* after the loop: the statement for the day's rows, one INSERT per entry,
\* and db.end() are queued; the command returns
QueueStatements ==
    /\ UNCHANGED <<lvars, uvars, svars>>
    /\ pc = "fold"
    /\ idx > Len(lines)
    /\ queue' = QueuedStatements(cmd, stats, sourceCounts)
    /\ pc' = "io"
    /\ UNCHANGED <<cmd, daysAgo, halogOut, today, runs, lines, idx, stats, sourceCounts, table,
                   exitCode, tableAtStart, insertErrors, thrown>>

\* the server answers the statement for the day's rows.  It has no callback:
\* mysql2 (not part of the repository) either drops the error or emits it as
\* an 'error' event nobody listens to, which ends the process.
ExecRemoveDay ==
    /\ UNCHANGED <<lvars, uvars, svars>>
    /\ pc = "io"
    /\ queue # <<>>
    /\ Head(queue).verb \notin {"INSERT", "QUIT"}
    /\ LET stmt == Head(queue)
       IN  IF ServerRejects(stmt)
           THEN /\ table' = table
                /\ \/ /\ queue' = Tail(queue)
                      /\ UNCHANGED <<pc, exitCode, thrown>>
                   \/ /\ queue' = <<>>
                      /\ pc' = "exited"
                      /\ exitCode' = 1
                      /\ thrown' = "query error"
           ELSE /\ table' = ServerApply(stmt, table, today)
                /\ queue' = Tail(queue)
                /\ UNCHANGED <<pc, exitCode, thrown>>
    /\ UNCHANGED <<cmd, daysAgo, halogOut, today, runs, lines, idx, stats, sourceCounts,
                   tableAtStart, insertErrors>>

\* the server answers an INSERT, with or without an error, and the callback
\* of the statement runs
ExecInsert ==
    /\ UNCHANGED <<lvars, uvars, svars>>
    /\ pc = "io"
    /\ queue # <<>>
    /\ Head(queue).verb = "INSERT"
    /\ \E err \in BOOLEAN :
         LET cb == InsertCallback(err)
         IN  /\ table' = IF err THEN table ELSE ServerApply(Head(queue), table, today)
             /\ insertErrors' = insertErrors + (IF err THEN 1 ELSE 0)
             /\ IF cb.exit
                THEN /\ pc' = "exited"
                     /\ exitCode' = cb.code
                     /\ queue' = <<>>
                ELSE /\ queue' = Tail(queue)
                     /\ UNCHANGED <<pc, exitCode>>
    /\ UNCHANGED <<cmd, daysAgo, halogOut, today, runs, lines, idx, stats, sourceCounts,
                   tableAtStart, thrown>>

\* db.end(): the connection closes and the process ends
ExecQuit ==
    /\ UNCHANGED <<lvars, uvars, svars>>
    /\ pc = "io"
    /\ queue # <<>>
    /\ Head(queue).verb = "QUIT"
    /\ queue' = <<>>
    /\ pc' = "exited"
    /\ UNCHANGED <<cmd, daysAgo, halogOut, today, runs, lines, idx, stats, sourceCounts,
                   table, exitCode, tableAtStart, insertErrors, thrown>>

\* midnight passes on the database server between two runs
DayPasses ==
    /\ UNCHANGED <<lvars, uvars, svars>>
    /\ pc = "exited"
    /\ today < 1 + MaxDays
    /\ today' = today + 1
    /\ UNCHANGED <<cmd, daysAgo, halogOut, runs, pc, lines, idx, stats, sourceCounts, queue,
                   table, exitCode, tableAtStart, insertErrors, thrown>>

NextCollector ==
    \/ StartRun
    \/ FoldLine
    \/ FoldSourceLine
    \/ QueueStatements
    \/ ExecRemoveDay
    \/ ExecInsert
    \/ ExecQuit
    \/ DayPasses

\* the collector that reads stdin does not run
StdinIdle ==
    /\ colParses = FALSE
    /\ colArgc = 0
    /\ rlInput = <<>>
    /\ rlPos = 1
    /\ sqlPending = <<>>
    /\ sqlDone = <<>>
    /\ colPc = "off"
    /\ colExit = 0

\* update_uniprot.sh does not run
UpdateIdle ==
    /\ shArgv = <<>>
    /\ shPc = "off"
    /\ shOpts = <<>>
    /\ shTables = {}
    /\ shExit = 0
    /\ shTrace = <<>>

\* the exporter does not run
LiveIdle ==
    /\ logFile = [readable |-> FALSE, content |-> <<>>]
    /\ now = 0
    /\ localOffset = 0
    /\ halogCount = [ok |-> FALSE, out |-> <<>>]
    /\ halogAvg = [ok |-> FALSE, out |-> <<>>]
    /\ livePc = "off"
    /\ nodeCounts = <<>>
    /\ metrics = <<>>
    /\ filtered = <<>>
    /\ avgLines = <<>>
    /\ avgIdx = 1
    /\ avgStats = <<>>
    /\ avgs = <<>>
    /\ liveExit = 0
    /\ liveThrown = <<>>
    /\ avgHalogCalls = 0
    /\ sock = "none"
    /\ resolved = FALSE
    /\ promise = "none"
    /\ sent = <<>>
    /\ connections = 0
    /\ sentAt = 0
    /\ sockLog = <<>>

InitCollectorRun == InitCollector /\ LiveIdle /\ UpdateIdle /\ StdinIdle

SpecCollector == InitCollectorRun /\ [][NextCollector]_vars

\* one collector process, from its start to its end
StartProcess == pc = "idle" /\ StartRun

NextProcess ==
    \/ StartProcess
    \/ FoldLine
    \/ FoldSourceLine
    \/ QueueStatements
    \/ ExecRemoveDay
    \/ ExecInsert
    \/ ExecQuit

SpecProcess == InitCollectorRun /\ [][NextProcess]_vars

-----------------------------------------------------------------------------
(* Claims about the collector *)

\* the statistic a line contributes on its own: the map it leaves when read
\* first (empty when the line is refused)
OwnEntries(c, line) == CollectorLine(c, <<>>, line).stats

\* a step of the loop that reads a line whose key the map already has
RecurringKeyStep ==
    /\ cmd \in {"endpoints", "nodes"}
    /\ pc = "fold" /\ pc' = "fold" /\ idx' = idx + 1
    /\ OwnEntries(cmd, lines[idx]) # <<>>
    /\ MapHas(stats, OwnEntries(cmd, lines[idx])[1].key)

\* C1: when a key recurs, the stored record has newTotal = oldTotal +
\* thisTotal and newAvg = (thisAvg*thisTotal + oldAvg*oldTotal) / newTotal;
\* (10, 2.0) then (10, 4.0) gives total 20 and average 3.0.
C1_WeightedFold ==
    [][RecurringKeyStep =>
         LET this     == OwnEntries(cmd, lines[idx])[1]
             old      == MapGet(stats, this.key)
             new      == MapGet(stats', this.key)
             newTotal == Add(old.totalReqCount, this.totalReqCount)
         IN  /\ new.totalReqCount = newTotal
             /\ new.avgTime = Div(Add(Mul(this.avgTime, this.totalReqCount),
                                      Mul(old.avgTime, old.totalReqCount)),
                                  newTotal)]_vars

\* C2: folding a row with count 0 and a finite average into an existing
\* accumulator leaves its total and its average unchanged, also when the
\* combined total is zero.
C2_ZeroCountNeutral ==
    [][RecurringKeyStep =>
         LET this == OwnEntries(cmd, lines[idx])[1]
             old  == MapGet(stats, this.key)
             new  == MapGet(stats', this.key)
         IN  (this.totalReqCount = Num(0) /\ IsFinite(this.avgTime)) =>
                 /\ new.totalReqCount = old.totalReqCount
                 /\ new.avgTime = old.avgTime]_vars

\* the count field or the average field of the line parses to no finite number
Malformed(c, line) ==
    LET fields == Split(line, " ")
        count  == ParseInt(Field(fields, IF c = "endpoints" THEN Endpoints_totalReqCountCol
                                         ELSE Nodes_totReqCountCol))
        avg    == ParseFloat(Field(fields, IF c = "endpoints" THEN Endpoints_avgTimeCol
                                           ELSE Nodes_avgTimeCol))
    IN  ~IsFinite(count) \/ ~IsFinite(avg)

\* the map the loop of command c builds from the lines ls, starting from m
RECURSIVE FoldAll(_, _, _)
FoldAll(c, m, ls) ==
    IF ls = <<>> THEN m ELSE FoldAll(c, CollectorLine(c, m, ls[1]).stats, Tail(ls))

\* C4: a row whose count or average is not finite is skipped: no exception,
\* and the mapping is the one of the same rows without the malformed ones.
C4_MalformedRowSkipped ==
    /\ thrown # "TypeError"
    /\ (cmd \in {"endpoints", "nodes"} /\ pc = "io") =>
         stats = FoldAll(cmd, <<>>, SelectSeq(lines, LAMBDA l : ~Malformed(cmd, l)))

\* C8: after any number of runs the table holds exactly one row per
\* aggregation key and date.
C8_OneRowPerKeyAndDate ==
    /\ \A i, j \in DOMAIN table :
         (table[i].date = table[j].date /\ table[i].key = table[j].key) => i = j
    /\ (pc = "exited" /\ exitCode = 0 /\ thrown = "") =>
         \A k \in DOMAIN stats : \E i \in DOMAIN table : table[i].key = stats[k].key

\* C9: a cycle that aborts leaves the persisted rows as they were.
C9_AbortLeavesTable ==
    (pc = "exited" /\ exitCode # 0) => table = tableAtStart

\* C10: once an insert has reported an error the process has ended with
\* exit status 3.
C10_InsertErrorExits3 ==
    insertErrors > 0 => (pc = "exited" /\ exitCode = 3)

C10_Witness ==
    /\ insertErrors > 0 /\ pc = "exited" /\ exitCode = 3
    /\ table # tableAtStart

\* C11: the statement that removes the day's rows and every INSERT of a run
\* name the date (current date minus --days-ago days), and the same one.
C11_DaysAgoSetsDate ==
    \A k \in DOMAIN queue :
        queue[k].verb # "QUIT" =>
            /\ SubDate(today, queue[k].daysAgo) = SubDate(today, daysAgo)
            /\ queue[k].daysAgo = queue[1].daysAgo

-----------------------------------------------------------------------------
(* Live exporter: the timestamp at the start of a log line *)

(* A log line is the array line.split(/\s+/) of its tokens; the empty line
   is the empty array.  A token is a record:
     k     "iso": the token starts with YYYY-MM-DDT; "tz": the token is
           +HH:MM, -HH:MM, +HHMM or -HHMM; "word": anything else
     sec   the wall-clock time the token writes, in seconds
     frac  its fraction in milliseconds, -1 when it writes none
     tz    the designator the token ends with: "none", "Z", "colon" (+HH:MM)
           or "nocolon" (+HHMM)
     off   the offset the designator writes, in seconds east of UTC
     form  "full": after the T come HH:MM:SS, an optional fraction and an
           optional designator, and nothing else; "junk": after the T comes
           text no date parser reads
     valid the calendar fields name a date and a time that exist *)
IsoToken(sec, frac, tz, off, form, valid) ==
    [k |-> "iso", sec |-> sec, frac |-> frac, tz |-> tz, off |-> off,
     form |-> form, valid |-> valid]

TzToken(tz, off) ==
    [k |-> "tz", sec |-> 0, frac |-> -1, tz |-> tz, off |-> off,
     form |-> "full", valid |-> TRUE]

WordToken ==
    [k |-> "word", sec |-> 0, frac |-> -1, tz |-> "none", off |-> 0,
     form |-> "junk", valid |-> FALSE]

\* null, and the Date of an instant t (milliseconds since the epoch)
Null == <<>>

DateOf(t) == <<t>>

\* new Date(str) for str = base followed by the tokens of extra, as V8 reads
\* it: an ISO date-time with at most one designator (with or without the
\* colon); without designator it is local time.  Invalid Date is Null.
NewDate(base, extra, tzLocal) ==
    LET designators == (IF base.tz = "none" THEN 0 ELSE 1) + Len(extra)
        offset == IF base.tz \in {"colon", "nocolon"} THEN base.off
                  ELSE IF base.tz = "Z" THEN 0
                  ELSE IF extra # <<>> THEN extra[1].off
                  ELSE tzLocal
    IN  IF base.k = "iso" /\ base.form = "full" /\ base.valid /\ designators <= 1
        THEN DateOf(base.sec * 1000 + (IF base.frac < 0 THEN 0 ELSE base.frac)
                      - offset * 1000)
        ELSE Null

\* parseSyslogTimestampToDate(tokens)
parseSyslogTimestampToDate_alwaysAppends(tokens, tzLocal) ==
    IF Len(tokens) = 0 THEN Null
    ELSE
    LET first    == tokens[1]
        isoLike  == first.k = "iso" /\ first.form = "full"
        tzOnly   == Len(tokens) >= 2 /\ tokens[2].k = "tz"
        tzSecond == IF tzOnly THEN <<tokens[2]>> ELSE <<>>
        d        == NewDate(first, tzSecond, tzLocal)
        d2       == NewDate([first EXCEPT !.frac = -1], tzSecond, tzLocal)
    IN  IF ~(isoLike \/ (first.k = "iso" /\ tzOnly)) THEN Null
        ELSE IF d # Null THEN d
        ELSE IF first.form = "full" /\ d2 # Null THEN d2
        ELSE Null

parseSyslogTimestampToDate(tokens, tzLocal) ==
    IF Len(tokens) = 0 THEN Null
    ELSE
    LET first    == tokens[1]
        isoLike  == first.k = "iso" /\ first.form = "full"
        tzOnly   == Len(tokens) >= 2 /\ tokens[2].k = "tz"
        tzSecond == IF tzOnly THEN <<tokens[2]>> ELSE <<>>
        isoStr   == IF first.tz = "none" /\ tzOnly THEN tzSecond ELSE <<>>
        d        == NewDate(first, isoStr, tzLocal)
        d2       == NewDate([first EXCEPT !.frac = -1], tzSecond, tzLocal)
    IN  IF ~(isoLike \/ (first.k = "iso" /\ tzOnly)) THEN Null
        ELSE IF d # Null THEN d
        ELSE IF first.form = "full" /\ d2 # Null THEN d2
        ELSE Null

-----------------------------------------------------------------------------
(* Live exporter: filterRecentLogLines *)

\* the test of a line whose timestamp parsed to dt (Null when it did not)
KeepLine_strictlyAfter(dt, cutoff) == dt # Null /\ dt[1] > cutoff

KeepLine_unparsedIsNow(dt, cutoff) == dt = Null \/ dt[1] >= cutoff

KeepLine(dt, cutoff) == dt # Null /\ dt[1] >= cutoff

\* the loop over content.split('\n')
RECURSIVE FilterLoop(_, _, _)
FilterLoop(ls, cutoff, tzLocal) ==
    IF ls = <<>> THEN <<>>
    ELSE LET line == ls[1]
             rest == FilterLoop(Tail(ls), cutoff, tzLocal)
         IN  IF line = <<>> THEN rest
             ELSE IF KeepLine(parseSyslogTimestampToDate(line, tzLocal), cutoff)
             THEN <<line>> \o rest
             ELSE rest

\* filterRecentLogLines on the content of the log, at time t: the lines of
\* the text it returns
filterRecentLogLines(content, windowSeconds, t, tzLocal) ==
    FilterLoop(content, t - windowSeconds * 1000, tzLocal)

\* the window avgLatencyByNodeFromRecent asks for
RecentWindowSeconds == 60

-----------------------------------------------------------------------------
(* Live exporter: the summarizer's lines *)

\* processCommand of halog-live.js, on stdout.split('\n')
Live_processCommand(out) ==
    LET ls == TrimAll(Tail(out))
    IN  IF Len(ls) > 0 THEN SpliceLast(ls) ELSE ls

\* processCommandWithInput, on stdout.split('\n'): empty lines are left out
processCommandWithInput(out) ==
    LET ls == SelectSeq(TrimAll(Tail(out)), LAMBDA l : Len(l) # 0)
    IN  IF Len(ls) > 0 THEN SpliceLast(ls) ELSE ls

Live_serverNameCol == 0
Live_totReqCountCol == 7
Live_avgTimeCol == 11

\* the node of a server name: the part after the first '/', the whole name
\* when it has none
NodeOf(serverName) ==
    LET parts == Split(serverName, "/")
    IN  IF Len(parts) > 1 THEN parts[2] ELSE serverName

-----------------------------------------------------------------------------
(* Live exporter: avgLatencyByNodeFromRecent *)

\* `!filtered || filtered.trim().length === 0`: a kept line starts with its
\* timestamp, so the text is blank exactly when no line was kept
FilteredIsBlank_never(f) == FALSE

FilteredIsBlank(f) == f = <<>>

\* nodeStats.total += totalReqCount; nodeStats.weightedSum += avgTime * totalReqCount
Accumulate_unweighted(nodeStats, totalReqCount, avgTime) ==
    [nodeStats EXCEPT !.total = Add(@, totalReqCount),
                      !.weightedSum = Add(@, avgTime)]

Accumulate(nodeStats, totalReqCount, avgTime) ==
    [nodeStats EXCEPT !.total = Add(@, totalReqCount),
                      !.weightedSum = Add(@, Mul(avgTime, totalReqCount))]

\* one round of the loop over the lines: the Map after the line
AvgLine(m, line) ==
    IF line = <<>> THEN m
    ELSE
    LET fields        == Split(line, " ")
        serverName    == Field(fields, Live_serverNameCol)
        node          == NodeOf(serverName)
        totalReqCount == ParseInt(Field(fields, Live_totReqCountCol))
        avgTime       == ParseFloat(Field(fields, Live_avgTimeCol))
        m1            == IF MapHas(m, node) THEN m
                         ELSE Append(m, [key |-> node, total |-> Num(0),
                                         weightedSum |-> Num(0)])
    IN  IF serverName = <<>> THEN m
        ELSE IF ~IsFinite(totalReqCount) \/ ~IsFinite(avgTime) THEN m
        ELSE [k \in 1..Len(m1) |->
                IF m1[k].key = node THEN Accumulate(m1[k], totalReqCount, avgTime)
                ELSE m1[k]]

\* node -> avg, for the nodes whose total is positive
RECURSIVE AvgResult(_)
AvgResult(m) ==
    IF m = <<>> THEN <<>>
    ELSE IF Gt(m[1].total, Num(0))
    THEN <<[key |-> m[1].key, value |-> Div(m[1].weightedSum, m[1].total)]>>
           \o AvgResult(Tail(m))
    ELSE AvgResult(Tail(m))

-----------------------------------------------------------------------------
(* Live exporter: countRequestsByNode *)

\* one round of the loop over the lines: counts after the line
CountLine(c, line) ==
    IF line = <<>> THEN c
    ELSE
    LET fields        == Split(line, " ")
        serverName    == Field(fields, Live_serverNameCol)
        node          == NodeOf(serverName)
        totalReqCount == ParseInt(Field(fields, Live_totReqCountCol))
    IN  IF serverName = <<>> THEN c
        ELSE IF ~IsFinite(totalReqCount) THEN c
        ELSE IF \E k \in 1..Len(c) : c[k].key = node
        THEN [k \in 1..Len(c) |->
                IF c[k].key = node
                THEN [c[k] EXCEPT !.value = Add(@, totalReqCount)]
                ELSE c[k]]
        ELSE Append(c, [key |-> node, value |-> totalReqCount])

RECURSIVE CountAll(_, _)
CountAll(c, ls) == IF ls = <<>> THEN c ELSE CountAll(CountLine(c, ls[1]), Tail(ls))

-----------------------------------------------------------------------------
(* Live exporter: the metrics of main *)

\* sanitizeForGraphite(segment)
sanitizeForGraphite(segment) ==
    [k \in 1..Len(segment) |->
        IF \/ segment[k] \in Digits \cup {"_", "-"}
           \/ \E u \in 1..Len(UpperCase) : segment[k] \in {UpperCase[u], LowerCase[u]}
        THEN segment[k] ELSE "_"]

PathPrefix ==
    <<"h", "a", "l", "o", "g", "_", "l", "i", "v", "e", ".",
      "u", "n", "i", "p", "e", "p", "t", "a", "p", "i", ".">>

RequestCountSuffix ==
    <<".", "r", "e", "q", "u", "e", "s", "t", "_", "c", "o", "u", "n", "t">>

AvgResponseTimeSuffix ==
    <<".", "a", "v", "g", "_", "r", "e", "s", "p", "o", "n", "s", "e", "_",
      "t", "i", "m", "e">>

\* one metric {path, value} per entry of an object, with the given suffix
RECURSIVE MetricsOf(_, _)
MetricsOf(entries, suffix) ==
    IF entries = <<>> THEN <<>>
    ELSE <<[path |-> PathPrefix \o sanitizeForGraphite(entries[1].key) \o suffix,
            value |-> entries[1].value]>>
           \o MetricsOf(Tail(entries), suffix)

\* the payload of sendToGraphite: one line `path value ts` per metric
RECURSIVE PayloadLines_clockPerLine(_, _)
PayloadLines_clockPerLine(ms, ts) ==
    IF ms = <<>> THEN <<>>
    ELSE <<[path |-> ms[1].path, value |-> ms[1].value, ts |-> ts]>>
           \o PayloadLines_clockPerLine(Tail(ms), ts + 1)

RECURSIVE PayloadLines(_, _)
PayloadLines(ms, ts) ==
    IF ms = <<>> THEN <<>>
    ELSE <<[path |-> ms[1].path, value |-> ms[1].value, ts |-> ts]>>
           \o PayloadLines(Tail(ms), ts)

-----------------------------------------------------------------------------
(* Live exporter: the process *)

\* log lines around the cutoff of a run at now = 100 s (cutoff 40 s)
LogLines ==
    { <<IsoToken(40, -1, "Z", 0, "full", TRUE), WordToken>>,
      <<IsoToken(40, -1, "Z", 0, "full", TRUE), TzToken("colon", 3600)>>,
      <<IsoToken(39, 999, "Z", 0, "full", TRUE), WordToken>>,
      <<IsoToken(90, -1, "none", 0, "full", TRUE), WordToken>>,
      <<IsoToken(3640, -1, "none", 0, "full", TRUE), TzToken("colon", 3600)>>,
      <<IsoToken(3640, 500, "colon", 3600, "full", TRUE), TzToken("colon", 7200)>>,
      <<WordToken, IsoToken(90, -1, "Z", 0, "full", TRUE)>>,
      <<IsoToken(90, -1, "none", 0, "junk", TRUE), TzToken("nocolon", 0)>>,
      <<IsoToken(90, -1, "Z", 0, "full", FALSE)>>,
      <<>> }

RecentLine == <<IsoToken(90, -1, "Z", 0, "full", TRUE), WordToken>>

\* the runs that differ in the log, with one summarizer output
InitLiveWindow ==
    /\ \E content \in SeqsUpTo(LogLines, MaxLogLines) :
         logFile = [readable |-> TRUE, content |-> content]
    /\ localOffset \in {0, 3600}
    /\ halogCount = [ok |-> TRUE, out |-> Stdout(<<NodeRow(Rick, <<"3">>, <<"3">>, <<"5">>)>>)]
    /\ halogAvg =
         [ok |-> TRUE,
          out |-> Stdout(<<NodeRow(Rick, <<"3">>, <<"3">>, <<"5">>),
                           NodeRow(Patty, <<"1">>, <<"1">>, <<"2">>)>>)]

\* the runs that differ in what the summarizer prints, with three logs
InitLiveRows ==
    /\ logFile \in { [readable |-> FALSE, content |-> <<>>],
                     [readable |-> TRUE, content |-> <<>>],
                     [readable |-> TRUE, content |-> <<RecentLine>>] }
    /\ localOffset = 0
    /\ halogCount \in { [ok |-> FALSE, out |-> <<>>],
                        [ok |-> TRUE, out |-> Stdout(<<>>)],
                        [ok |-> TRUE,
                         out |-> Stdout(<<NodeRow(Rick, <<"3">>, <<"3">>, <<"5">>)>>)] }
    /\ \E ok \in BOOLEAN :
         \E rows \in SeqsUpTo(NodeRows, MaxRows) :
            halogAvg = [ok |-> ok, out |-> IF ok THEN Stdout(rows) ELSE <<>>]

InitLive ==
    /\ InitLiveWindow \/ InitLiveRows
    /\ now = 100000
    /\ livePc = "start"
    /\ nodeCounts = <<>>
    /\ metrics = <<>>
    /\ filtered = <<>>
    /\ avgLines = <<>>
    /\ avgIdx = 1
    /\ avgStats = <<>>
    /\ avgs = <<>>
    /\ liveExit = 0
    /\ liveThrown = <<>>
    /\ avgHalogCalls = 0
    /\ sock = "none"
    /\ resolved = FALSE
    /\ promise = "none"
    /\ sent = <<>>
    /\ connections = 0
    /\ sentAt = 0
    /\ sockLog = <<>>

\* the collector does not run
CollectorIdle ==
    /\ cmd = "none"
    /\ daysAgo = 1
    /\ halogOut = [ok |-> FALSE, out |-> <<>>]
    /\ today = 1
    /\ runs = 0
    /\ pc = "off"
    /\ lines = <<>>
    /\ idx = 1
    /\ stats = <<>>
    /\ sourceCounts = ZeroCounts
    /\ queue = <<>>
    /\ table = <<>>
    /\ exitCode = 0
    /\ tableAtStart = <<>>
    /\ insertErrors = 0
    /\ thrown = ""

envVars == <<logFile, now, localOffset, halogCount, halogAvg>>

sockVars == <<sock, resolved, promise, sent, connections, sentAt, sockLog>>

\* main calls countRequestsByNode and builds the request_count metrics.
\* execSync throws when the command exits non-zero; countRequestsByNode
\* rethrows, main has no handler around the call and `await main()` rejects.
LiveCount ==
    /\ UNCHANGED <<cvars, uvars, svars>>
    /\ livePc = "start"
    /\ IF halogCount.ok
       THEN /\ nodeCounts' = CountAll(<<>>, Live_processCommand(halogCount.out))
            /\ metrics' = MetricsOf(nodeCounts', RequestCountSuffix)
            /\ livePc' = "filter"
            /\ UNCHANGED <<liveExit, liveThrown>>
       ELSE /\ liveThrown' = Append(liveThrown, "countRequestsByNode")
            /\ livePc' = "crashed"
            /\ liveExit' = 1
            /\ UNCHANGED <<nodeCounts, metrics>>
    /\ UNCHANGED <<envVars, sockVars, filtered, avgLines, avgIdx, avgStats, avgs,
                   avgHalogCalls>>

\* avgLatencyByNodeFromRecent calls filterRecentLogLines; a log that cannot
\* be read throws, and the catch of main sets process.exitCode
LiveFilter ==
    /\ UNCHANGED <<cvars, uvars, svars>>
    /\ livePc = "filter"
    /\ IF logFile.readable
       THEN /\ filtered' = filterRecentLogLines(logFile.content, RecentWindowSeconds,
                                                now, localOffset)
            /\ livePc' = "halog"
            /\ UNCHANGED <<liveExit, liveThrown>>
       ELSE /\ liveThrown' = Append(liveThrown, "readFileSync")
            /\ liveExit' = 1
            /\ livePc' = "metrics"
            /\ UNCHANGED filtered
    /\ UNCHANGED <<envVars, sockVars, nodeCounts, metrics, avgLines, avgIdx, avgStats,
                   avgs, avgHalogCalls>>

\* nothing recent: return {}; otherwise the filtered lines go to halog
LiveHalog ==
    /\ UNCHANGED <<cvars, uvars, svars>>
    /\ livePc = "halog"
    /\ IF FilteredIsBlank(filtered)
       THEN /\ avgs' = <<>>
            /\ livePc' = "metrics"
            /\ UNCHANGED <<avgHalogCalls, avgLines, liveExit, liveThrown>>
       ELSE /\ avgHalogCalls' = avgHalogCalls + 1
            /\ UNCHANGED avgs
            /\ IF halogAvg.ok
               THEN /\ avgLines' = processCommandWithInput(halogAvg.out)
                    /\ livePc' = "fold"
                    /\ UNCHANGED <<liveExit, liveThrown>>
               ELSE /\ liveThrown' = Append(liveThrown, "processCommandWithInput")
                    /\ liveExit' = 1
                    /\ livePc' = "metrics"
                    /\ UNCHANGED avgLines
    /\ avgIdx' = 1
    /\ avgStats' = <<>>
    /\ UNCHANGED <<envVars, sockVars, nodeCounts, metrics, filtered>>

\* one round of `for (const line of lines)`
LiveFoldLine ==
    /\ UNCHANGED <<cvars, uvars, svars>>
    /\ livePc = "fold"
    /\ avgIdx <= Len(avgLines)
    /\ avgStats' = AvgLine(avgStats, avgLines[avgIdx])
    /\ avgIdx' = avgIdx + 1
    /\ UNCHANGED <<envVars, sockVars, livePc, nodeCounts, metrics, filtered, avgLines,
                   avgs, liveExit, liveThrown, avgHalogCalls>>

\* after the loop: the result goes back to main
LiveResult ==
    /\ UNCHANGED <<cvars, uvars, svars>>
    /\ livePc = "fold"
    /\ avgIdx > Len(avgLines)
    /\ avgs' = AvgResult(avgStats)
    /\ livePc' = "metrics"
    /\ UNCHANGED <<envVars, sockVars, nodeCounts, metrics, filtered, avgLines, avgIdx,
                   avgStats, liveExit, liveThrown, avgHalogCalls>>

\* main adds one avg_response_time metric per entry of avgs
LiveAvgMetrics_dropsAllOnFailure ==
    /\ UNCHANGED <<cvars, uvars, svars>>
    /\ livePc = "metrics"
    /\ metrics' = IF liveThrown # <<>> THEN <<>>
                  ELSE metrics \o MetricsOf(avgs, AvgResponseTimeSuffix)
    /\ livePc' = "send"
    /\ UNCHANGED <<envVars, sockVars, nodeCounts, filtered, avgLines, avgIdx, avgStats,
                   avgs, liveExit, liveThrown, avgHalogCalls>>

LiveAvgMetrics ==
    /\ UNCHANGED <<cvars, uvars, svars>>
    /\ livePc = "metrics"
    /\ metrics' = metrics \o MetricsOf(avgs, AvgResponseTimeSuffix)
    /\ livePc' = "send"
    /\ UNCHANGED <<envVars, sockVars, nodeCounts, filtered, avgLines, avgIdx, avgStats,
                   avgs, liveExit, liveThrown, avgHalogCalls>>

\* the promise after resolve() or reject(): the first call settles it, a
\* later call changes nothing
Settle(p, outcome) == IF p = "pending" THEN outcome ELSE p

\* client.on('error'): reject(err) unless resolved is set
ErrorHandler_ignores(res, p) == [resolved |-> res, promise |-> p, calls |-> <<>>]

ErrorHandler(res, p) ==
    IF ~res THEN [resolved |-> TRUE, promise |-> Settle(p, "rejected"), calls |-> <<"reject">>]
    ELSE [resolved |-> res, promise |-> p, calls |-> <<>>]

\* client.on('close'): resolve() unless resolved is set
CloseHandler_alwaysResolves(res, p) ==
    [resolved |-> TRUE, promise |-> "fulfilled", calls |-> <<"resolve">>]

CloseHandler(res, p) ==
    IF ~res THEN [resolved |-> TRUE, promise |-> Settle(p, "fulfilled"), calls |-> <<"resolve">>]
    ELSE [resolved |-> res, promise |-> p, calls |-> <<>>]

\* nothing to send: main returns; otherwise sendToGraphite connects
LiveSend_alwaysConnects ==
    /\ UNCHANGED <<cvars, uvars, svars>>
    /\ livePc = "send"
    /\ livePc' = "await"
    /\ sock' = "connecting"
    /\ promise' = "pending"
    /\ connections' = connections + 1
    /\ UNCHANGED <<resolved, sent, sentAt, sockLog>>
    /\ UNCHANGED <<envVars, nodeCounts, metrics, filtered, avgLines, avgIdx, avgStats,
                   avgs, liveExit, liveThrown, avgHalogCalls>>

LiveSend ==
    /\ UNCHANGED <<cvars, uvars, svars>>
    /\ livePc = "send"
    /\ IF metrics = <<>>
       THEN /\ livePc' = "done"
            /\ UNCHANGED sockVars
       ELSE /\ livePc' = "await"
            /\ sock' = "connecting"
            /\ promise' = "pending"
            /\ connections' = connections + 1
            /\ UNCHANGED <<resolved, sent, sentAt, sockLog>>
    /\ UNCHANGED <<envVars, nodeCounts, metrics, filtered, avgLines, avgIdx, avgStats,
                   avgs, liveExit, liveThrown, avgHalogCalls>>

\* milliseconds between the Date.now() of filterRecentLogLines and the
\* Date.now() of the connect callback
SendDelays == {400, 1200}

\* the connect callback reads the clock once and writes the payload
SockConnected ==
    /\ UNCHANGED <<cvars, uvars, svars>>
    /\ sock = "connecting"
    /\ \E delay \in SendDelays :
         /\ sentAt' = now + delay
         /\ sent' = PayloadLines(metrics, sentAt' \div 1000)
    /\ sock' = "writing"
    /\ sockLog' = Append(sockLog, "connect")
    /\ UNCHANGED <<envVars, livePc, nodeCounts, metrics, filtered, avgLines, avgIdx,
                   avgStats, avgs, liveExit, liveThrown, avgHalogCalls, resolved,
                   promise, connections>>

\* the write callback ends the connection
SockWritten ==
    /\ UNCHANGED <<cvars, uvars, svars>>
    /\ sock = "writing"
    /\ sock' = "ending"
    /\ sockLog' = sockLog \o <<"written", "end">>
    /\ UNCHANGED <<envVars, livePc, nodeCounts, metrics, filtered, avgLines, avgIdx,
                   avgStats, avgs, liveExit, liveThrown, avgHalogCalls, resolved,
                   promise, sent, sentAt, connections>>

\* the 'error' event: the connection is refused or breaks
SockError ==
    /\ UNCHANGED <<cvars, uvars, svars>>
    /\ sock \in {"connecting", "writing", "ending"}
    /\ sock' = "errored"
    /\ LET h == ErrorHandler(resolved, promise)
       IN  /\ resolved' = h.resolved
           /\ promise' = h.promise
           /\ sockLog' = Append(sockLog, "error") \o h.calls
    /\ UNCHANGED <<envVars, livePc, nodeCounts, metrics, filtered, avgLines, avgIdx,
                   avgStats, avgs, liveExit, liveThrown, avgHalogCalls, sent,
                   sentAt, connections>>

\* the 'close' event, after the end of the connection or after an error
SockClose ==
    /\ UNCHANGED <<cvars, uvars, svars>>
    /\ sock \in {"ending", "errored"}
    /\ sock' = "closed"
    /\ LET h == CloseHandler(resolved, promise)
       IN  /\ resolved' = h.resolved
           /\ promise' = h.promise
           /\ sockLog' = Append(sockLog, "close") \o h.calls
    /\ UNCHANGED <<envVars, livePc, nodeCounts, metrics, filtered, avgLines, avgIdx,
                   avgStats, avgs, liveExit, liveThrown, avgHalogCalls, sent,
                   sentAt, connections>>

\* `await sendToGraphite(...)` settles: a rejection is caught and logged
LiveAwait ==
    /\ UNCHANGED <<cvars, uvars, svars>>
    /\ livePc = "await"
    /\ promise \in {"fulfilled", "rejected"}
    /\ livePc' = "done"
    /\ IF promise = "rejected"
       THEN liveExit' = 1 /\ liveThrown' = Append(liveThrown, "sendToGraphite")
       ELSE UNCHANGED <<liveExit, liveThrown>>
    /\ UNCHANGED <<envVars, sockVars, nodeCounts, metrics, filtered, avgLines, avgIdx,
                   avgStats, avgs, avgHalogCalls>>

NextLive ==
    \/ LiveCount
    \/ LiveFilter
    \/ LiveHalog
    \/ LiveFoldLine
    \/ LiveResult
    \/ LiveAvgMetrics
    \/ LiveSend
    \/ SockConnected
    \/ SockWritten
    \/ SockError
    \/ SockClose
    \/ LiveAwait

InitLiveRun == InitLive /\ CollectorIdle /\ UpdateIdle /\ StdinIdle

SpecLive == InitLiveRun /\ [][NextLive]_vars

-----------------------------------------------------------------------------
(* Claims about the live exporter *)

\* what a summarizer row says on its own: its node, its count, its average,
\* and whether the aggregation accepts it (a server name, a finite count and
\* a finite average)
ParsedRow(line) ==
    LET fields == Split(line, " ")
        count  == ParseInt(Field(fields, Live_totReqCountCol))
        avg    == ParseFloat(Field(fields, Live_avgTimeCol))
    IN  [node     |-> NodeOf(Field(fields, Live_serverNameCol)),
         count    |-> count,
         avg      |-> avg,
         accepted |-> /\ line # <<>>
                      /\ Field(fields, Live_serverNameCol) # <<>>
                      /\ IsFinite(count)
                      /\ IsFinite(avg)]

\* the sum of count_i (weighted = FALSE) or of avg_i * count_i (weighted =
\* TRUE) over the rows of the index set S
RECURSIVE SumRows(_, _, _)
SumRows(S, rows, weighted) ==
    IF S = {} THEN Num(0)
    ELSE LET i == CHOOSE j \in S : TRUE
         IN  Add(IF weighted THEN Mul(rows[i].avg, rows[i].count) ELSE rows[i].count,
                 SumRows(S \ {i}, rows, weighted))

\* the accepted rows of a node
RowsOfNode(rows, n) == {i \in DOMAIN rows : rows[i].accepted /\ rows[i].node = n}

\* avgLatencyByNodeFromRecent has folded every line and returned
AvgResultReady ==
    /\ livePc \in {"metrics", "send", "await", "done"}
    /\ avgHalogCalls = 1
    /\ halogAvg.ok

\* C3: for each node whose summed count is positive the result is
\* sum(avg_i * count_i) / sum(count_i) over its accepted rows, and a node
\* whose summed count is zero has no entry.
C3_CountWeightedMean ==
    AvgResultReady =>
      LET rows == [i \in 1..Len(avgLines) |-> ParsedRow(avgLines[i])]
      IN  /\ \A k \in DOMAIN avgs : RowsOfNode(rows, avgs[k].key) # {}
          /\ \A i \in DOMAIN rows :
               rows[i].accepted =>
                 LET mine  == RowsOfNode(rows, rows[i].node)
                     total == SumRows(mine, rows, FALSE)
                     wsum  == SumRows(mine, rows, TRUE)
                     hits  == {k \in DOMAIN avgs : avgs[k].key = rows[i].node}
                 IN  /\ Gt(total, Num(0)) =>
                          /\ Cardinality(hits) = 1
                          /\ \A k \in hits : avgs[k].value = Div(wsum, total)
                     /\ total = Num(0) => hits = {}

C3_Witness ==
    /\ AvgResultReady
    /\ Len(avgLines) = 2
    /\ \E k \in DOMAIN avgs :
         /\ \A i \in 1..2 : ParsedRow(avgLines[i]).accepted
                              /\ ParsedRow(avgLines[i]).node = avgs[k].key
         /\ avgs[k].value = Num(3)

\* the timestamp a line parses to, in this run
LineDate(line) == parseSyslogTimestampToDate(line, localOffset)

\* the lines with a parsed timestamp t >= t0 - w seconds, in input order
LinesSince(content, w, t0) ==
    SelectSeq(content,
              LAMBDA l : LineDate(l) # Null /\ LineDate(l)[1] >= t0 - w * 1000)

\* windows and reference times the filter is tried with besides the run's
\* own: now itself, a cutoff at time zero, a cutoff before time zero
TriedWindows == {0, 60, 100, 1000}

FilterDone == logFile.readable /\ livePc \notin {"start", "filter", "crashed"}

\* C5: filterRecentLogLines returns the input lines whose parsed timestamp
\* is at or after now - windowSeconds, in input order.
C5_WindowFilter ==
    /\ FilterDone => filtered = LinesSince(logFile.content, RecentWindowSeconds, now)
    /\ \A w \in TriedWindows :
         filterRecentLogLines(logFile.content, w, now, localOffset)
           = LinesSince(logFile.content, w, now)

C5_Witness ==
    /\ FilterDone
    /\ Len(logFile.content) = 2
    /\ Len(filtered) = 1
    /\ LineDate(filtered[1]) = DateOf(now - RecentWindowSeconds * 1000)
    /\ LineDate(logFile.content[1]) # Null

\* C6: a line whose leading tokens parse to no timestamp is in no output of
\* the filter, for any window, and the other lines are kept as without it.
C6_UnparsableDropped ==
    /\ FilterDone =>
         /\ \A k \in DOMAIN filtered : LineDate(filtered[k]) # Null
         /\ filtered = filterRecentLogLines(
                          SelectSeq(logFile.content, LAMBDA l : LineDate(l) # Null),
                          RecentWindowSeconds, now, localOffset)
    /\ \A w \in TriedWindows :
         LET out == filterRecentLogLines(logFile.content, w, now, localOffset)
         IN  /\ \A k \in DOMAIN out : LineDate(out[k]) # Null
             /\ out = filterRecentLogLines(
                         SelectSeq(logFile.content, LAMBDA l : LineDate(l) # Null),
                         w, now, localOffset)

C6_Witness ==
    /\ FilterDone
    /\ Len(logFile.content) = 2
    /\ logFile.content[1] # <<>> /\ LineDate(logFile.content[1]) = Null
    /\ filtered = <<logFile.content[2]>>

\* s.endsWith(p)
EndsWith(str, p) == Len(p) <= Len(str) /\ Drop(str, Len(str) - Len(p)) = p

\* no line of the log has a parsed timestamp inside the window
NothingRecent ==
    /\ logFile.readable
    /\ \A k \in DOMAIN logFile.content :
         LET dt == LineDate(logFile.content[k])
         IN  dt = Null \/ dt[1] < now - RecentWindowSeconds * 1000

\* C7: with an empty log, or no parsable timestamp inside the window, the
\* filter result is empty, avgLatencyByNodeFromRecent returns {} without
\* invoking the summarizer, no avg_response_time metric is made, and the
\* exit code is set by nothing but a failed send.
C7_NothingRecentIsQuiet ==
    (NothingRecent /\ FilterDone) =>
      /\ filtered = <<>>
      /\ avgHalogCalls = 0
      /\ avgs = <<>>
      /\ \A k \in DOMAIN metrics : ~EndsWith(metrics[k].path, AvgResponseTimeSuffix)
      /\ \A k \in DOMAIN liveThrown : liveThrown[k] = "sendToGraphite"
      /\ liveExit # 0 => liveThrown # <<>>

C7_Witness ==
    /\ NothingRecent
    /\ logFile.content # <<>>
    /\ livePc = "done"
    /\ metrics # <<>>
    /\ promise = "fulfilled"
    /\ liveExit = 0

-----------------------------------------------------------------------------
(* Claims about keys, classes and the stripping of the summarizer output *)

\* the part of a raw identifier after its last '/', the whole identifier when
\* it has none
LastSegment(raw) == LET parts == Split(raw, "/") IN parts[Len(parts)]

\* the raw identifier of a row
RawName(line) == Field(Split(line, " "), Nodes_serverNameCol)

\* the rows of processNodes read so far that pass its filter
NodeRowsRead ==
    {i \in 1..(idx - 1) : \E n \in acceptedNodes : Includes(RawName(lines[i]), n)}

\* C12: the aggregation key of a row is the part of its raw identifier after
\* the last '/', or the whole identifier when it has no '/': in processNodes
\* (the keys of the map) and in the live exporter (NodeOf).
C12_KeyAfterLastSeparator ==
    (cmd = "nodes" /\ pc \in {"fold", "io"}) =>
        /\ \A i \in NodeRowsRead : MapHas(stats, LastSegment(RawName(lines[i])))
        /\ \A k \in DOMAIN stats :
             \E i \in NodeRowsRead : stats[k].key = LastSegment(RawName(lines[i]))
        /\ \A i \in 1..(idx - 1) :
             lines[i] # <<>> => NodeOf(RawName(lines[i])) = LastSegment(RawName(lines[i]))

\* the marker m occurs in the user agent, in any case
HasMarker(ua, m) ==
    \E i \in 0..(Len(ua) - Len(m)) :
        \A j \in 1..Len(m) : ToLowerCase(<<ua[i + j]>>) = <<m[j]>>

DesktopMarker == <<"u", "n", "i", "p", "e", "p", "t", "d", "e", "s", "k", "t", "o", "p">>

CliMarker == <<"u", "n", "i", "p", "e", "p", "t", " ", "c", "l", "i">>

BrowserMarkers ==
    { <<"c", "h", "r", "o", "m", "e">>, <<"c", "h", "r", "o", "m", "i", "u", "m">>,
      <<"c", "r", "i", "o", "s">>, <<"f", "i", "r", "e", "f", "o", "x">>,
      <<"f", "x", "i", "o", "s">>, <<"s", "a", "f", "a", "r", "i">>,
      <<"o", "p", "r">>, <<"e", "d", "g">> }

HasBrowser(ua) == \E m \in BrowserMarkers : HasMarker(ua, m)

\* the class the ordered checks give a user agent
ExpectedClass(ua) ==
    CHOOSE c \in {"desktop", "cli", "web", "other"} :
        /\ c = "desktop" <=> HasMarker(ua, DesktopMarker)
        /\ c = "cli" <=> (~HasMarker(ua, DesktopMarker) /\ HasMarker(ua, CliMarker))
        /\ c = "web" <=> (~HasMarker(ua, DesktopMarker) /\ ~HasMarker(ua, CliMarker)
                           /\ HasBrowser(ua))

\* the user agent and the count of a line of `uniq -c`: the text after the
\* count, and the count
UserAgentOfLine(line) ==
    LET t == TrimStart(line) IN Drop(t, IndexOf(t, <<" ">>))

CountOfLine(line) ==
    LET t == TrimStart(line) IN ParseInt(Take(t, IndexOf(t, <<" ">>) - 1))

\* a round of the loop of processSources
SourceStep == cmd = "sources" /\ pc = "fold" /\ idx' = idx + 1

\* C13: every user agent adds to exactly one class, the one the ordered,
\* case-insensitive checks give (desktop, then cli, then web, else other);
\* one with a desktop or cli marker and a browser token never adds to web.
C13_OrderedClassifier ==
    [][SourceStep =>
         LET ua == UserAgentOfLine(lines[idx])
         IN  /\ \A c \in {"desktop", "cli", "web", "other"} :
                  sourceCounts'[c] = IF c = ExpectedClass(ua)
                                     THEN Add(sourceCounts[c], CountOfLine(lines[idx]))
                                     ELSE sourceCounts[c]
             /\ ((HasMarker(ua, DesktopMarker) \/ HasMarker(ua, CliMarker))
                    /\ HasBrowser(ua)) => sourceCounts'.web = sourceCounts.web]_vars

\* a user agent with the desktop marker and a browser token was counted as
\* desktop, and one with the cli marker and a browser token can follow
C13_Witness ==
    /\ cmd = "sources" /\ pc = "fold" /\ idx = 2 /\ Len(lines) >= 1
    /\ HasMarker(UserAgentOfLine(lines[1]), DesktopMarker)
    /\ HasBrowser(UserAgentOfLine(lines[1]))
    /\ sourceCounts.desktop = Num(7)
    /\ sourceCounts.web = Num(0)

\* the four example user agents
ExampleDesktop ==
    <<"M", "o", "z", "i", "l", "l", "a", "/", "5", ".", "0", " ", "u", "n", "i", "p", "e", "p", "t", "d", "e", "s", "k", "t", "o", "p", "/", "1", ".", "2">>

ExampleCli ==
    <<"u", "n", "i", "p", "e", "p", "t", "-", "c", "l", "i", "/", "0", ".", "9">>

ExampleWeb ==
    <<"M", "o", "z", "i", "l", "l", "a", "/", "5", ".", "0", " ", "C", "h", "r", "o", "m", "e", "/", "1", "1", "8">>

ExampleCurl ==
    <<"c", "u", "r", "l", "/", "8", ".", "0">>

\* a round of the loop reads the user agent ua and adds its count to class c
AddsTo(ua, c) ==
    (SourceStep /\ UserAgentOfLine(lines[idx]) = ua) =>
        /\ sourceCounts'[c] = Add(sourceCounts[c], CountOfLine(lines[idx]))
        /\ \A d \in {"desktop", "cli", "web", "other"} \ {c} :
             sourceCounts'[d] = sourceCounts[d]

\* C14 as stated: the examples go to desktop, cli, web and other.
C14_ExamplesAsStated ==
    [][/\ AddsTo(ExampleDesktop, "desktop")
       /\ AddsTo(ExampleCli, "cli")
       /\ AddsTo(ExampleWeb, "web")
       /\ AddsTo(ExampleCurl, "other")]_vars

\* C14, amended: 'unipept-cli/0.9' has no 'unipept cli' in it and goes to
\* other; the other three examples go to desktop, web and other.
C14_Examples ==
    [][/\ AddsTo(ExampleDesktop, "desktop")
       /\ AddsTo(ExampleCli, "other")
       /\ AddsTo(ExampleWeb, "web")
       /\ AddsTo(ExampleCurl, "other")]_vars

C14_Witness ==
    /\ cmd = "sources" /\ pc = "fold" /\ idx = 2 /\ Len(lines) >= 1
    /\ UserAgentOfLine(lines[1]) = ExampleCli
    /\ sourceCounts.other = Num(6)
    /\ sourceCounts.cli = Num(0)

\* the (count, userAgent) lines the pipeline of processSources printed
PrintedPairs == SelectSeq(halogOut.out, LAMBDA l : l # <<>>)

RECURSIVE SumCounts(_)
SumCounts(ls) ==
    IF ls = <<>> THEN Num(0) ELSE Add(CountOfLine(ls[1]), SumCounts(Tail(ls)))

\* processSources has returned and nothing it queued has been executed yet
SourcesQueued ==
    cmd = "sources" /\ pc = "io" /\ queue # <<>> /\ Head(queue).verb = "DROP"

\* C15: every (count, userAgent) pair adds its count to one class, so the
\* four totals add up to the sum of all counts, and the four rows desktop,
\* cli, web, other are written, also when a total is zero.
C15_CountsConserved ==
    SourcesQueued =>
        /\ Add(Add(sourceCounts.desktop, sourceCounts.cli),
               Add(sourceCounts.web, sourceCounts.other)) = SumCounts(PrintedPairs)
        /\ [k \in 1..(Len(queue) - 2) |-> queue[k + 1].key]
             = << <<"d", "e", "s", "k", "t", "o", "p">>, <<"c", "l", "i">>,
                  <<"w", "e", "b">>, <<"o", "t", "h", "e", "r">> >>
        /\ \A k \in 2..(Len(queue) - 1) : queue[k].verb = "INSERT"

\* the accepted values of the command's filter
AcceptedValues == IF cmd = "endpoints" THEN accepted_endpoints ELSE acceptedNodes

\* C16: every key of the result contains one of the accepted values:
\* '/mpa', '/private_api', '/api' for endpoints, 'patty', 'selma', 'rick',
\* 'sherlock' for nodes; a row whose key contains none is not folded.
C16_KeysPassFilter ==
    (cmd \in {"endpoints", "nodes"} /\ pc \in {"fold", "io"}) =>
        \A k \in DOMAIN stats :
            \E v \in AcceptedValues :
                \E i \in 0..(Len(stats[k].key) - Len(v)) :
                    \A j \in 1..Len(v) : stats[k].key[i + j] = v[j]

\* every run of '/' of a path collapsed to one '/'
RECURSIVE CollapseSlashes(_)
CollapseSlashes(str) ==
    IF Len(str) < 2 THEN str
    ELSE IF str[1] = "/" /\ str[2] = "/" THEN CollapseSlashes(Tail(str))
    ELSE <<str[1]>> \o CollapseSlashes(Tail(str))

\* a raw endpoint without its scheme and host, duplicate separators collapsed
CanonicalEndpoint(raw) ==
    CollapseSlashes(IF StartsWith(raw, HttpsHost) THEN Drop(raw, Len(HttpsHost))
                    ELSE IF StartsWith(raw, HttpHost) THEN Drop(raw, Len(HttpHost))
                    ELSE raw)

\* the raw endpoint field of a row
RawEndpoint(line) == Field(Split(line, " "), Endpoints_endpointCol)

\* C17: no key of processEndpoints contains '//' or a known host prefix, and
\* raw endpoints that differ only by the host prefix or by duplicated
\* separators are folded under one key.
C17_EndpointNormalized ==
    (cmd = "endpoints" /\ pc \in {"fold", "io"}) =>
        /\ \A k \in DOMAIN stats :
             /\ ~Includes(stats[k].key, <<"/", "/">>)
             /\ ~Includes(stats[k].key, HttpsHost)
             /\ ~Includes(stats[k].key, HttpHost)
        /\ \A i \in 1..(idx - 1) :
             (\E v \in accepted_endpoints : Includes(CanonicalEndpoint(RawEndpoint(lines[i])), v))
                 => MapHas(stats, CanonicalEndpoint(RawEndpoint(lines[i])))

\* the data lines of a summarizer stdout of one header line, the data
\* lines and one status line, each ended by a newline
DataLines(out) == SubSeq(out, 2, Len(out) - 2)

\* C18: for such a stdout the stripping returns the data lines, in order,
\* without the header and the status line, and processCommand and
\* processCommandWithInput return the same rows.
C18_StrippingReturnsDataLines ==
    (cmd \in {"endpoints", "nodes"} /\ pc = "fold") =>
        /\ lines = DataLines(halogOut.out)
        /\ Live_processCommand(halogOut.out) = DataLines(halogOut.out)
        /\ processCommandWithInput(halogOut.out) = DataLines(halogOut.out)

\* x >= y, for finite numbers
Ge(x, y) == x = y \/ Gt(x, y)

\* the row is refused by the filter, or its own error count is between 0
\* and its own total
RowWithinTotal(c, line) ==
    \A k \in DOMAIN OwnEntries(c, line) :
        LET own == OwnEntries(c, line)[k]
        IN  /\ IsFinite(own.totalReqCount) /\ IsFinite(own.badReqCount)
            /\ Ge(own.badReqCount, Num(0))
            /\ Ge(own.totalReqCount, own.badReqCount)

\* C19: when every row read so far has 0 <= error count <= total, every
\* key of the map has 0 <= badReqCount <= totalReqCount at every point of
\* the fold, and no INSERT carries a negative req_successful.
C19_ErrorsWithinTotal ==
    (/\ cmd \in {"endpoints", "nodes"}
     /\ pc \in {"fold", "io"}
     /\ \A i \in 1..(idx - 1) : RowWithinTotal(cmd, lines[i])) =>
        /\ \A k \in DOMAIN stats :
             /\ Ge(stats[k].badReqCount, Num(0))
             /\ Ge(stats[k].totalReqCount, stats[k].badReqCount)
        /\ \A q \in DOMAIN queue :
             queue[q].verb = "INSERT" => Ge(queue[q].values[1], Num(0))

C19_Witness ==
    /\ cmd = "endpoints" /\ pc = "io"
    /\ \A i \in 1..(idx - 1) : RowWithinTotal(cmd, lines[i])
    /\ \E k \in DOMAIN stats :
         stats[k].totalReqCount = Num(20) /\ stats[k].badReqCount = Num(1)
    /\ \E q \in DOMAIN queue :
         queue[q].verb = "INSERT" /\ queue[q].values[1] = Num(19)

-----------------------------------------------------------------------------
(* Claims about sendToGraphite *)

\* the calls of resolve and reject made so far
SettleCalls == SelectSeq(sockLog, LAMBDA e : e \in {"resolve", "reject"})

ErrorSeen == \E k \in DOMAIN sockLog : sockLog[k] = "error"

\* C20: success is declared only after the payload was written, the
\* connection ended and 'close' received; the promise settles exactly once;
\* after an 'error' the outcome is failure, also when 'close' follows.
C20_SuccessOnlyAfterClose ==
    /\ Len(SettleCalls) <= 1
    /\ sock = "closed" => Len(SettleCalls) = 1
    /\ promise = "fulfilled" <=> SettleCalls = <<"resolve">>
    /\ promise = "rejected" <=> SettleCalls = <<"reject">>
    /\ promise = "fulfilled" =>
         /\ sockLog = <<"connect", "written", "end", "close", "resolve">>
         /\ sent # <<>>
         /\ Len(sent) = Len(metrics)
    /\ ErrorSeen => promise = "rejected"

C20_Witness ==
    /\ sock = "closed"
    /\ sockLog = <<"connect", "written", "end", "error", "reject", "close">>
    /\ promise = "rejected"
    /\ livePc = "done"
    /\ liveExit = 1

\* the other outcome: the promise is fulfilled after the close
C20_SuccessReached ==
    /\ sock = "closed"
    /\ promise = "fulfilled"
    /\ livePc = "done"

-----------------------------------------------------------------------------
(* Claims about the batch sendToGraphite writes and about the end of main *)

\* the number of times the callback or call e is in the log of the socket
TimesLogged(e) == Len(SelectSeq(sockLog, LAMBDA x : x = e))

\* a path is one field of a line: no space and no line break in it
OneField(path) == \A k \in DOMAIN path : path[k] \notin {" ", "\n", "\t"}

\* C21: one call of sendToGraphite opens one connection and writes one
\* batch: one line `path value timestamp` per record, in the order of the
\* records, every line with the same timestamp, the clock of the connect
\* callback in whole seconds.
C21_OneBatchOneTimestamp ==
    /\ connections <= 1
    /\ TimesLogged("connect") <= 1
    /\ TimesLogged("written") <= TimesLogged("connect")
    /\ sent # <<>> =>
         /\ connections = 1
         /\ TimesLogged("connect") = 1
         /\ Len(sent) = Len(metrics)
         /\ \A k \in DOMAIN sent :
              /\ sent[k].path = metrics[k].path
              /\ sent[k].value = metrics[k].value
              /\ OneField(sent[k].path)
              /\ sent[k].ts * 1000 <= sentAt
              /\ sentAt < (sent[k].ts + 1) * 1000
              /\ sent[k].ts = sent[1].ts

C21_Witness ==
    /\ sock = "closed"
    /\ promise = "fulfilled"
    /\ Len(sent) = 3
    /\ sent[1].path # sent[2].path
    /\ sent[2].path # sent[3].path
    /\ sentAt = now + 1200
    /\ sent[3].ts = 101

\* main has returned with no metric to send
EndedEmpty == livePc = "done" /\ metrics = <<>>

\* the steps of avgLatencyByNodeFromRecent that can throw
AvgFailures == {"readFileSync", "processCommandWithInput"}

LastCaught == IF liveThrown = <<>> THEN "" ELSE liveThrown[Len(liveThrown)]

\* C23: a failure of the connection or of the write ('error' on the socket)
\* does not leave main: the promise is rejected, the catch of main takes the
\* rejection and sets the exit code to 1, and main returns.
C23_SinkFailureCaught ==
    /\ ErrorSeen => livePc \in {"await", "done"}
    /\ (ErrorSeen /\ livePc = "await") => promise = "rejected"
    /\ (ErrorSeen /\ livePc = "done") =>
         /\ LastCaught = "sendToGraphite"
         /\ liveExit = 1
    /\ LastCaught = "sendToGraphite" => (ErrorSeen /\ livePc = "done")

C23_Witness ==
    /\ livePc = "done"
    /\ sockLog = <<"error", "reject", "close">>
    /\ sent = <<>>
    /\ liveThrown = <<"sendToGraphite">>
    /\ liveExit = 1

\* a failure of the write: the 'error' comes after the connect callback
C23_WriteFailureCaught ==
    /\ livePc = "done"
    /\ sockLog = <<"connect", "error", "reject", "close">>
    /\ liveThrown = <<"sendToGraphite">>
    /\ liveExit = 1

\* the summarizer could not be executed in some step of the cycle
SummarizerFailed ==
    \E k \in DOMAIN liveThrown :
       liveThrown[k] \in {"countRequestsByNode", "processCommandWithInput"}

\* C24: a summarizer that cannot be executed, in the request-count step or
\* in the average step, sets a non-zero exit status and is caught inside
\* main: the process is never ended by the exception.
C24_SummarizerFailureHandled ==
    SummarizerFailed => (liveExit # 0 /\ livePc # "crashed")

\* the average step alone: its failure is caught by main
C24_AvgStepHandled ==
    (LastCaught = "processCommandWithInput") => (liveExit = 1 /\ livePc # "crashed")

\* avgLatencyByNodeFromRecent threw in this cycle
AvgFailed == \E k \in DOMAIN liveThrown : liveThrown[k] \in AvgFailures

\* the request_count metrics of the cycle
CountMetrics == MetricsOf(nodeCounts, RequestCountSuffix)

\* C25: when the computation of the averages fails, the request_count
\* metrics of the cycle are what main sends, no avg_response_time metric is
\* among them, and the exit code is 1.
C25_CountsSentWhenAvgFails ==
    AvgFailed =>
      /\ liveExit = 1
      /\ avgs = <<>>
      /\ \A k \in DOMAIN metrics : ~EndsWith(metrics[k].path, AvgResponseTimeSuffix)
      /\ livePc \in {"send", "await", "done"} => metrics = CountMetrics
      /\ (livePc = "done" /\ nodeCounts # <<>>) => connections = 1
      /\ TimesLogged("connect") = 1 =>
           sent = PayloadLines(CountMetrics, sentAt \div 1000)
      /\ (livePc = "done" /\ nodeCounts # <<>> /\ ~ErrorSeen) =>
           /\ promise = "fulfilled"
           /\ Len(sent) = Len(nodeCounts)
           /\ \A k \in DOMAIN sent :
                /\ EndsWith(sent[k].path, RequestCountSuffix)
                /\ sent[k].value = nodeCounts[k].value

C25_Witness ==
    /\ liveThrown = <<"processCommandWithInput">>
    /\ livePc = "done"
    /\ promise = "fulfilled"
    /\ Len(sent) = 1
    /\ sent[1].value = Num(3)
    /\ liveExit = 1

\* the same when it is the log that cannot be read
C25_UnreadableLogReached ==
    /\ liveThrown = <<"readFileSync">>
    /\ livePc = "done"
    /\ promise = "fulfilled"
    /\ Len(sent) = 1
    /\ liveExit = 1

-----------------------------------------------------------------------------
(* Claims about the time zone of a log line *)

\* the first token ends with a designator of its own: Z, +HH:MM or +HHMM
HasOwnZone(tok) == tok.tz \in {"Z", "colon", "nocolon"}

\* the second token has the shape of an offset
ZoneShapedSecond(tokens) == Len(tokens) >= 2 /\ tokens[2].k = "tz"

\* the first token is a date and time that exist, written in full
WellFormedFirst(tokens) ==
    /\ tokens # <<>>
    /\ tokens[1].k = "iso"
    /\ tokens[1].form = "full"
    /\ tokens[1].valid

\* the wall-clock time the first token writes, in milliseconds
WallClock(tok) == tok.sec * 1000 + (IF tok.frac < 0 THEN 0 ELSE tok.frac)

\* the instant of a line: the zone is the first token's own when it has
\* one, else the second token's when that has the shape of an offset, else
\* the zone of the process
ExpectedInstant(tokens) ==
    LET first == tokens[1]
    IN  IF HasOwnZone(first)
        THEN WallClock(first) - (IF first.tz = "Z" THEN 0 ELSE first.off) * 1000
        ELSE IF ZoneShapedSecond(tokens)
        THEN WallClock(first) - tokens[2].off * 1000
        ELSE WallClock(first) - localOffset * 1000

\* C26: parseSyslogTimestampToDate reads the zone of a line from the first
\* token's own designator when it has one, whatever the second token is;
\* only without one is an offset-shaped second token appended and applied.
C26_ZoneOfFirstToken ==
    /\ \A k \in DOMAIN logFile.content :
         LET l == logFile.content[k]
         IN  WellFormedFirst(l) =>
               parseSyslogTimestampToDate(l, localOffset) = DateOf(ExpectedInstant(l))
    /\ FilterDone =>
         filtered = SelectSeq(logFile.content,
                              LAMBDA l : /\ WellFormedFirst(l)
                                         /\ ExpectedInstant(l)
                                              >= now - RecentWindowSeconds * 1000)

C26_Witness ==
    /\ FilterDone
    /\ localOffset = 3600
    /\ Len(filtered) = 2
    /\ filtered[1][1].tz = "Z" /\ ZoneShapedSecond(filtered[1])
    /\ filtered[1][2].off # 0
    /\ filtered[2][1].tz = "colon" /\ ZoneShapedSecond(filtered[2])
    /\ filtered[2][2].off # filtered[2][1].off

\* a first token without designator, kept because of the offset of the
\* second token
C26_SecondTokenApplied ==
    /\ FilterDone
    /\ Len(filtered) = 1
    /\ filtered[1][1].tz = "none" /\ ZoneShapedSecond(filtered[1])
    /\ WallClock(filtered[1][1]) - localOffset * 1000 # ExpectedInstant(filtered[1])

-----------------------------------------------------------------------------
(* update_uniprot.sh: the words of the command line *)

\* the word --help
Opt_help == <<"-", "-", "h", "e", "l", "p">>

\* the word the pattern *"update"* looks for
UpdateWord == <<"u", "p", "d", "a", "t", "e">>

\* the option variables as the script sets them at its top; REMOTE_USER is
\* not set there and expands to the empty word
DefaultOpts ==
    [SCRATCH_DIR |-> <<"/", "h", "o", "m", "e">>,
     OUTPUT_DIR |-> <<"/", "m", "n", "t", "/", "d", "a", "t", "a", "/">>,
     DATABASE_SOURCES |-> <<"s", "w", "i", "s", "s", "p", "r", "o", "t", ",", "t", "r", "e", "m", "b", "l">>,
     LOCAL_SSH_KEY |-> <<>>,
     REMOTE_ADDRESS |-> <<>>,
     REMOTE_USER |-> <<>>,
     REMOTE_PORT |-> <<"4", "8", "4", "0">>,
     REMOTE_OUTPUT_DIR |-> <<"/", "m", "n", "t", "/", "d", "a", "t", "a">>]

\* the branches of the case of parse_update_arguments that take a value
UpdateOptions ==
    { [flag |-> <<"-", "-", "s", "c", "r", "a", "t", "c", "h", "-", "d", "i", "r">>,
       var |-> "SCRATCH_DIR"],
      [flag |-> <<"-", "-", "o", "u", "t", "p", "u", "t", "-", "d", "i", "r">>,
       var |-> "OUTPUT_DIR"],
      [flag |-> <<"-", "-", "d", "a", "t", "a", "b", "a", "s", "e", "-", "s", "o", "u", "r", "c", "e", "s">>,
       var |-> "DATABASE_SOURCES"] }

\* the branches of the case of parse_clone_arguments that take a value
CloneOptions ==
    { [flag |-> <<"-", "-", "s", "c", "r", "a", "t", "c", "h", "-", "d", "i", "r">>,
       var |-> "SCRATCH_DIR"],
      [flag |-> <<"-", "-", "o", "u", "t", "p", "u", "t", "-", "d", "i", "r">>,
       var |-> "OUTPUT_DIR"],
      [flag |-> <<"-", "-", "l", "o", "c", "a", "l", "-", "s", "s", "h", "-", "k", "e", "y">>,
       var |-> "LOCAL_SSH_KEY"],
      [flag |-> <<"-", "-", "r", "e", "m", "o", "t", "e", "-", "a", "d", "d", "r", "e", "s", "s">>,
       var |-> "REMOTE_ADDRESS"],
      [flag |-> <<"-", "-", "r", "e", "m", "o", "t", "e", "-", "u", "s", "e", "r">>,
       var |-> "REMOTE_USER"],
      [flag |-> <<"-", "-", "r", "e", "m", "o", "t", "e", "-", "p", "o", "r", "t">>,
       var |-> "REMOTE_PORT"],
      [flag |-> <<"-", "-", "r", "e", "m", "o", "t", "e", "-", "o", "u", "t", "p", "u", "t", "-", "d", "i", "r">>,
       var |-> "REMOTE_OUTPUT_DIR"] }

\* the while loop over "$@" with its case: exit is -1 when the loop ends
\* with no word left, 0 after --help, 1 after an option without value or an
\* unknown word
RECURSIVE ParseArguments(_, _, _)
ParseArguments(args, opts, known) ==
    IF args = <<>> THEN [exit |-> -1, opts |-> opts]
    ELSE IF \E o \in known : o.flag = args[1]
    THEN LET o == CHOOSE x \in known : x.flag = args[1]
         IN  IF Len(args) >= 2 /\ args[2] # <<>> /\ ~StartsWith(args[2], <<"-", "-">>)
             THEN ParseArguments(Drop(args, 2), [opts EXCEPT ![o.var] = args[2]], known)
             ELSE [exit |-> 1, opts |-> opts]
    ELSE IF args[1] = Opt_help THEN [exit |-> 0, opts |-> opts]
    ELSE [exit |-> 1, opts |-> opts]

parse_update_arguments(args, opts) == ParseArguments(args, opts, UpdateOptions)

parse_clone_arguments(args, opts) ==
    LET r == ParseArguments(args, opts, CloneOptions)
    IN  IF r.exit # -1 THEN r
        ELSE IF r.opts.LOCAL_SSH_KEY = <<>> \/ r.opts.REMOTE_ADDRESS = <<>>
        THEN [exit |-> 1, opts |-> r.opts]
        ELSE r

-----------------------------------------------------------------------------
(* update_uniprot.sh: the script *)

\* the files generate_tables requires, in the order of its array
RequiredFiles ==
    <<"uniprot_entries.tsv.lz4", "taxons.tsv.lz4", "lineages.tsv.lz4",
      "interpro_entries.tsv.lz4", "go_terms.tsv.lz4", "ec_numbers.tsv.lz4",
      "reference_proteomes.tsv.lz4">>

\* the files extract_and_move_tables extracts and deletes, in the order of
\* its array
MovedFiles ==
    <<"taxons.tsv.lz4", "lineages.tsv.lz4", "interpro_entries.tsv.lz4",
      "go_terms.tsv.lz4", "ec_numbers.tsv.lz4", "reference_proteomes.tsv.lz4">>

\* the required files and the .version file of the database script
AllTableFiles == {RequiredFiles[k] : k \in DOMAIN RequiredFiles} \cup {".version"}

\* what generate_sa_tables.sh, or the copy from the remote server, leaves in
\* the tables directory
GeneratedSets ==
    { AllTableFiles,
      AllTableFiles \ {".version"},
      AllTableFiles \ {"uniprot_entries.tsv.lz4"},
      AllTableFiles \ {"go_terms.tsv.lz4"},
      {"uniprot_entries.tsv.lz4"},
      {} }

\* exit statuses of an external command that fails
FailStatuses == {1, 2, 128}

\* the words after the mode
ArgLists ==
    LET opt(v) == (CHOOSE o \in UpdateOptions \cup CloneOptions : o.var = v).flag
        key    == <<"k">>
        host   == <<"h">>
        dir    == <<"/", "d">>
    IN  { <<>>,
          <<opt("LOCAL_SSH_KEY"), key, opt("REMOTE_ADDRESS"), host>>,
          <<opt("REMOTE_ADDRESS"), host, opt("OUTPUT_DIR"), dir,
            opt("LOCAL_SSH_KEY"), key>>,
          <<opt("LOCAL_SSH_KEY"), key>>,
          <<opt("LOCAL_SSH_KEY"), <<>>, opt("REMOTE_ADDRESS"), host>>,
          <<Opt_help>>,
          <<opt("OUTPUT_DIR")>>,
          <<opt("OUTPUT_DIR"), Opt_help>>,
          <<opt("OUTPUT_DIR"), dir>>,
          <<opt("DATABASE_SOURCES"), dir>>,
          <<dir>> }

\* the first word
Modes ==
    { UpdateWord, <<"c", "l", "o", "n", "e">>, <<"k", "m", "e", "r">>,
      <<"n", "o">> \o UpdateWord }

InitUpdate ==
    /\ shArgv \in {<<>>} \cup {<<m>> \o a : m \in Modes, a \in ArgLists}
    /\ shPc = "start"
    /\ shOpts = DefaultOpts
    /\ shTables \in {{}, AllTableFiles}
    /\ shExit = -1
    /\ shTrace = <<>>

\* a function or command of the script ends with the given status: under
\* `set -e` a status other than 0 ends the script with that status
Return(fn, status, next) ==
    /\ shTrace' = Append(shTrace, [fn |-> fn, status |-> status,
                                   via |-> IF status = 0 THEN "return" ELSE "errexit"])
    /\ IF status = 0
       THEN shPc' = next /\ UNCHANGED shExit
       ELSE shPc' = "exited" /\ shExit' = status

\* a function of the script that calls `exit` itself
Exit(fn, status) ==
    /\ shTrace' = Append(shTrace, [fn |-> fn, status |-> status, via |-> "exit"])
    /\ shPc' = "exited"
    /\ shExit' = status

\* the test of $#, MODE="$1", shift
ShMode ==
    /\ UNCHANGED <<cvars, lvars, svars>>
    /\ shPc = "start"
    /\ IF Len(shArgv) < 1
       THEN Exit("print_help", 1)
       ELSE shPc' = "checkdep" /\ UNCHANGED <<shExit, shTrace>>
    /\ UNCHANGED <<shArgv, shOpts, shTables>>

\* checkdep lz4, curl, cargo, git
ShCheckDeps ==
    /\ UNCHANGED <<cvars, lvars, svars>>
    /\ shPc = "checkdep"
    /\ \E installed \in BOOLEAN :
         Return("checkdep", IF installed THEN 0 ELSE 6, "version")
    /\ UNCHANGED <<shArgv, shOpts, shTables>>

\* UNIPROTKB_VERSION=$(get_latest_uniprot_version)
ShVersion ==
    /\ UNCHANGED <<cvars, lvars, svars>>
    /\ shPc = "version"
    /\ \E fetched \in BOOLEAN :
         Return("get_latest_uniprot_version", IF fetched THEN 0 ELSE 1, "mode")
    /\ UNCHANGED <<shArgv, shOpts, shTables>>

\* the arguments of a mode were parsed: the script goes on or has exited
Parsed(fn, r, next) ==
    /\ shOpts' = r.opts
    /\ IF r.exit = -1 THEN Return(fn, 0, next) ELSE Exit(fn, r.exit)

\* if [[ "$MODE" == *"update"* ]] ... elif [["$MODE" == *"clone"* ]] ... else.
\* The elif has no space after `[[`: its condition is the command whose name
\* is `[[` followed by the mode, which the shell looks up on PATH; a command
\* that is not found has status 127 and the else branch is taken.
ShDispatch ==
    /\ UNCHANGED <<cvars, lvars, svars>>
    /\ shPc = "mode"
    /\ LET MODE == shArgv[1]
           args == Tail(shArgv)
       IN  IF Includes(MODE, UpdateWord)
           THEN Parsed("parse_update_arguments",
                       parse_update_arguments(args, shOpts), "update_deps")
           ELSE \E found \in BOOLEAN :
                  IF found
                  THEN Parsed("parse_clone_arguments",
                              parse_clone_arguments(args, shOpts), "clone_deps")
                  ELSE Exit("invalid_mode", 1) /\ UNCHANGED shOpts
    /\ UNCHANGED <<shArgv, shTables>>

\* checkdep uuidgen, pv, pigz
ShUpdateDeps ==
    /\ UNCHANGED <<cvars, lvars, svars>>
    /\ shPc = "update_deps"
    /\ \E installed \in BOOLEAN :
         Return("checkdep", IF installed THEN 0 ELSE 6, "setup_directories")
    /\ UNCHANGED <<shArgv, shOpts, shTables>>

\* rm -rf of the directory of the version, mkdir -p of its three directories
setup_directories ==
    /\ UNCHANGED <<cvars, lvars, svars>>
    /\ shPc = "setup_directories"
    /\ \/ shTables' = {} /\ Return("setup_directories", 0, "generate_tables")
       \/ \E st \in FailStatuses :
            /\ shTables' \in {shTables, {}}
            /\ Return("setup_directories", st, "generate_tables")
    /\ UNCHANGED <<shArgv, shOpts>>

\* git clone, generate_sa_tables.sh, then the test of the required files
generate_tables_noTest ==
    /\ UNCHANGED <<cvars, lvars, svars>>
    /\ shPc = "generate_tables"
    /\ \E made \in GeneratedSets :
         /\ shTables' = made
         /\ \/ \E st \in FailStatuses : Return("generate_tables", st, "build_suffix_array")
            \/ Return("generate_tables", 0, "build_suffix_array")
    /\ UNCHANGED <<shArgv, shOpts>>

generate_tables ==
    /\ UNCHANGED <<cvars, lvars, svars>>
    /\ shPc = "generate_tables"
    /\ \E made \in GeneratedSets :
         /\ shTables' = made
         /\ \/ \E st \in FailStatuses : Return("generate_tables", st, "build_suffix_array")
            \/ IF \E k \in DOMAIN RequiredFiles : RequiredFiles[k] \notin made
               THEN Exit("generate_tables", 2)
               ELSE Return("generate_tables", 0, "build_suffix_array")
    /\ UNCHANGED <<shArgv, shOpts>>

\* git clone, cargo build, lz4cat | cut, sa-builder: the tables are read
build_suffix_array ==
    /\ UNCHANGED <<cvars, lvars, svars>>
    /\ shPc = "build_suffix_array"
    /\ \/ Return("build_suffix_array", 0, "extract_and_move_tables")
       \/ \E st \in FailStatuses :
            Return("build_suffix_array", st, "extract_and_move_tables")
    /\ UNCHANGED <<shArgv, shOpts, shTables>>

\* per file: lz4cat into the datastore, rm of the compressed file; then cp
\* of .version.  The loop completes k rounds; lz4cat fails on a missing file.
extract_and_move_tables ==
    /\ UNCHANGED <<cvars, lvars, svars>>
    /\ shPc = "extract_and_move_tables"
    /\ \E k \in {n \in 0..Len(MovedFiles) : \A j \in 1..n : MovedFiles[j] \in shTables} :
         /\ shTables' = shTables \ {MovedFiles[j] : j \in 1..k}
         /\ \/ \E st \in FailStatuses :
                 Return("extract_and_move_tables", st, "setup_opensearch")
            \/ /\ k = Len(MovedFiles)
               /\ ".version" \in shTables
               /\ Return("extract_and_move_tables", 0, "setup_opensearch")
    /\ UNCHANGED <<shArgv, shOpts>>

\* git clone, initialize_opensearch.sh --uniprot-entries <tables>/uniprot_entries.tsv.lz4
setup_opensearch ==
    /\ UNCHANGED <<cvars, lvars, svars>>
    /\ shPc = "setup_opensearch"
    /\ \/ Return("setup_opensearch", 0, "exit0")
       \/ \E st \in FailStatuses : Return("setup_opensearch", st, "exit0")
    /\ UNCHANGED <<shArgv, shOpts, shTables>>

\* checkdep scp, ssh
ShCloneDeps ==
    /\ UNCHANGED <<cvars, lvars, svars>>
    /\ shPc = "clone_deps"
    /\ \E installed \in BOOLEAN :
         Return("checkdep", IF installed THEN 0 ELSE 6, "copy_existing_database")
    /\ UNCHANGED <<shArgv, shOpts, shTables>>

\* the test of the remote directory over ssh, rm -r of the local one, scp -r
copy_existing_database ==
    /\ UNCHANGED <<cvars, lvars, svars>>
    /\ shPc = "copy_existing_database"
    /\ \/ Exit("copy_existing_database", 2) /\ UNCHANGED shTables
       \/ \E st \in FailStatuses :
            /\ shTables' \in {shTables, {}}
            /\ Return("copy_existing_database", st, "setup_opensearch")
       \/ \E copied \in GeneratedSets :
            /\ shTables' = copied
            /\ Return("copy_existing_database", 0, "setup_opensearch")
    /\ UNCHANGED <<shArgv, shOpts>>

\* exit 0 after the if
ShExit0 ==
    /\ UNCHANGED <<cvars, lvars, svars>>
    /\ shPc = "exit0"
    /\ shPc' = "exited"
    /\ shExit' = 0
    /\ UNCHANGED <<shArgv, shOpts, shTables, shTrace>>

NextUpdate ==
    \/ ShMode
    \/ ShCheckDeps
    \/ ShVersion
    \/ ShDispatch
    \/ ShUpdateDeps
    \/ setup_directories
    \/ generate_tables
    \/ build_suffix_array
    \/ extract_and_move_tables
    \/ setup_opensearch
    \/ ShCloneDeps
    \/ copy_existing_database
    \/ ShExit0

InitUpdateRun == InitUpdate /\ CollectorIdle /\ LiveIdle /\ StdinIdle

SpecUpdate == InitUpdateRun /\ [][NextUpdate]_vars

-----------------------------------------------------------------------------
(* Claims about update_uniprot.sh *)

\* the steps of update mode, in the order of the script
UpdateSteps ==
    <<"setup_directories", "generate_tables", "build_suffix_array",
      "extract_and_move_tables", "setup_opensearch">>

Range(f) == {f[k] : k \in DOMAIN f}

\* the first word selects update mode
UpdateMode == shArgv # <<>> /\ Includes(shArgv[1], UpdateWord)

\* the steps called so far
StepsTraced == SelectSeq(shTrace, LAMBDA e : e.fn \in Range(UpdateSteps))

\* the place of a step in the order
StepIndex(fn) == CHOOSE k \in DOMAIN UpdateSteps : UpdateSteps[k] = fn

AllRequiredPresent == \A k \in DOMAIN RequiredFiles : RequiredFiles[k] \in shTables

\* C27: in update mode the steps are called in the order setup_directories,
\* generate_tables, build_suffix_array, extract_and_move_tables,
\* setup_opensearch, each after all earlier ones returned 0;
\* build_suffix_array is not reached unless the seven required files exist
\* (generate_tables exits with 2 otherwise), and uniprot_entries.tsv.lz4 is
\* in the tables directory when setup_opensearch is reached.
C27_UpdateStepsInOrder ==
    UpdateMode =>
      /\ Len(StepsTraced) <= Len(UpdateSteps)
      /\ \A k \in DOMAIN StepsTraced :
           /\ StepsTraced[k].fn = UpdateSteps[k]
           /\ k < Len(StepsTraced) => StepsTraced[k].status = 0
      /\ shPc \in Range(UpdateSteps) =>
           /\ Len(StepsTraced) = StepIndex(shPc) - 1
           /\ \A k \in DOMAIN StepsTraced : StepsTraced[k].status = 0
      /\ shPc = "build_suffix_array" => AllRequiredPresent
      /\ \A k \in DOMAIN StepsTraced :
           StepsTraced[k].fn = "generate_tables" =>
             /\ StepsTraced[k].via = "exit" =>
                  (StepsTraced[k].status = 2 /\ ~AllRequiredPresent /\ shExit = 2)
             /\ (~AllRequiredPresent /\ Len(StepsTraced) = k) => shPc = "exited"
      /\ shPc = "setup_opensearch" => "uniprot_entries.tsv.lz4" \in shTables
      /\ (shPc = "exited" /\ shExit = 0 /\ StepsTraced # <<>>) =>
           /\ Len(StepsTraced) = Len(UpdateSteps)
           /\ "uniprot_entries.tsv.lz4" \in shTables

C27_Witness ==
    /\ UpdateMode
    /\ shPc = "exited"
    /\ shExit = 0
    /\ Len(StepsTraced) = Len(UpdateSteps)
    /\ shTables = {"uniprot_entries.tsv.lz4", ".version"}

\* the exit with 2: a required file is missing after generate_sa_tables.sh
C27_MissingFileReached ==
    /\ UpdateMode
    /\ shPc = "exited"
    /\ shExit = 2
    /\ Len(StepsTraced) = 2
    /\ StepsTraced[2].via = "exit"
    /\ shTables = AllTableFiles \ {"go_terms.tsv.lz4"}

\* the word the help text and the elif name for the second mode
CloneWord == <<"c", "l", "o", "n", "e">>

\* the script took the branch of the invalid mode
InvalidModeTaken == \E k \in DOMAIN shTrace : shTrace[k].fn = "invalid_mode"

\* C28: the error path of an invalid mode (exit 1) is taken only for a
\* first word that is neither update nor clone; with the word clone the
\* script parses the clone arguments and goes on to copy_existing_database
\* and setup_opensearch.
C28_CloneModeDispatched ==
    InvalidModeTaken =>
      (~Includes(shArgv[1], UpdateWord) /\ ~Includes(shArgv[1], CloneWord))

\* the invocation of the claim, as it ends on a host without a command
\* named `[[clone`
C28_CloneRejected ==
    /\ shArgv # <<>>
    /\ shArgv[1] = CloneWord
    /\ parse_clone_arguments(Tail(shArgv), DefaultOpts).exit = -1
    /\ InvalidModeTaken
    /\ shPc = "exited"
    /\ shExit = 1

-----------------------------------------------------------------------------
(* Claims about the order of the rows *)

\* the lines ls in the order p, a permutation of their places
Reordered(ls, p) == [k \in DOMAIN ls |-> ls[p[k]]]

\* the loop of the collector has read all lines, and every line that
\* reaches the fold has a finite count and a finite average
FoldedFiniteRows ==
    /\ cmd \in {"endpoints", "nodes"}
    /\ pc = "fold"
    /\ idx > Len(lines)
    /\ \A k \in DOMAIN lines :
         OwnEntries(cmd, lines[k]) # <<>> => ~Malformed(cmd, lines[k])

\* C29: the record of a key does not depend on the order of its rows: the
\* collector's loop over any permutation of the same finite rows ends with
\* the same total, error count and average for every key.
C29_FoldOrderIndependent ==
    FoldedFiniteRows =>
      \A p \in Permutations(DOMAIN lines) :
         Range(FoldAll(cmd, <<>>, Reordered(lines, p))) = Range(stats)

\* two rows of one key, both with a positive count, whose record depends on
\* their order
C29_PositiveCountsDiffer ==
    /\ FoldedFiniteRows
    /\ Len(stats) = 1
    /\ \A k \in DOMAIN lines :
         OwnEntries(cmd, lines[k]) # <<>> =>
           Gt(OwnEntries(cmd, lines[k])[1].totalReqCount, Num(0))
    /\ \E p \in Permutations(DOMAIN lines) :
         /\ Len(FoldAll(cmd, <<>>, Reordered(lines, p))) = 1
         /\ FoldAll(cmd, <<>>, Reordered(lines, p))[1].avgTime # stats[1].avgTime

\* the loop of avgLatencyByNodeFromRecent over the lines ls
RECURSIVE AvgAll(_, _)
AvgAll(m, ls) == IF ls = <<>> THEN m ELSE AvgAll(AvgLine(m, ls[1]), Tail(ls))

\* the live exporter: the averages and the counts are the same for every
\* order of the summarizer's rows
C29_LiveOrderIndependent ==
    /\ AvgResultReady =>
         \A p \in Permutations(DOMAIN avgLines) :
            Range(AvgResult(AvgAll(<<>>, Reordered(avgLines, p)))) = Range(avgs)
    /\ (halogCount.ok /\ livePc # "start") =>
         LET ls == Live_processCommand(halogCount.out)
         IN  \A p \in Permutations(DOMAIN ls) :
                Range(CountAll(<<>>, Reordered(ls, p))) = Range(nodeCounts)

\* two rows of one node with different counts were averaged
C29_LiveWitness ==
    /\ AvgResultReady
    /\ Len(avgLines) = 2
    /\ Len(avgs) = 1
    /\ ParsedRow(avgLines[1]).accepted /\ ParsedRow(avgLines[2]).accepted
    /\ ParsedRow(avgLines[1]).count # ParsedRow(avgLines[2]).count
    /\ ParsedRow(avgLines[1]).avg # ParsedRow(avgLines[2]).avg

-----------------------------------------------------------------------------
(* halog-collector/collect.js: the collector that reads stdin *)

\* lines that arrive on stdin in one run
MaxStdinLines == 3

Stdin_totalReqCountCol == 0
Stdin_badReqCountCol == 1
Stdin_avgTimeCol == 3
Stdin_endpointCol == 8

Stdin_accepted_endpoints ==
    { <<"/", "m", "p", "a">>,
      <<"/", "p", "r", "i", "v", "a", "t", "e", "_", "a", "p", "i">> }

\* lines of `halog -u -H`, their fields separated by tabs
StdinRows ==
    LET row(req, err, avg, endpoint) ==
          Join(<<req, err, <<"0">>, avg, <<"0">>, <<"0">>, <<"0">>, <<"0">>, endpoint>>,
               <<"\t">>)
    IN  { row(<<"1", "0">>, <<"1">>, <<"2", ".", "5">>, <<"/", "m", "p", "a">>),
          row(<<"4">>, <<"0">>, <<"6">>,
              <<"/", "p", "r", "i", "v", "a", "t", "e", "_", "a", "p", "i", "/", "x">>),
          row(<<"3">>, <<"0">>, <<"1">>, <<"/", "a", "p", "i">>),
          <<"7", "\t", "0">> }

\* the 'line' handler: the insert it queues, if any; endpoint.includes
\* throws a TypeError when the line has no ninth field
LineHandler(line) ==
    LET fields        == Split(line, "\t")
        totalReqCount == ParseInt(Field(fields, Stdin_totalReqCountCol))
        badReqCount   == ParseInt(Field(fields, Stdin_badReqCountCol))
        avgTime       == ParseFloat(Field(fields, Stdin_avgTimeCol))
        endpoint      == Field(fields, Stdin_endpointCol)
    IN  IF endpoint = Undefined THEN [throws |-> TRUE, queries |-> <<>>]
        ELSE IF \E v \in Stdin_accepted_endpoints : Includes(endpoint, v)
        THEN [throws  |-> FALSE,
              queries |-> <<[endpoint       |-> endpoint,
                             req_successful |-> Sub(totalReqCount, badReqCount),
                             req_error      |-> badReqCount,
                             avg_duration   |-> avgTime]>>]
        ELSE [throws |-> FALSE, queries |-> <<>>]

InitStdin ==
    /\ colParses \in BOOLEAN
    /\ colArgc \in {4, 5}
    /\ rlInput \in SeqsUpTo(StdinRows, MaxStdinLines)
    /\ rlPos = 1
    /\ sqlPending = <<>>
    /\ sqlDone = <<>>
    /\ colPc = "start"
    /\ colExit = -1

\* process.exit(status), or the end of the process after an uncaught error
ProcessExit(status) == colPc' = "exited" /\ colExit' = status

\* Node loads the file; then the top level: the test of the arguments,
\* createConnection, createInterface (stdin starts to flow), con.connect,
\* rl.on("close").  A file that does not parse ends the process with 1
\* before any statement runs.
StdinStart ==
    /\ UNCHANGED <<cvars, lvars, uvars>>
    /\ colPc = "start"
    /\ IF ~colParses THEN ProcessExit(1)
       ELSE IF colArgc # 5 THEN ProcessExit(1)
       ELSE colPc' = "connecting" /\ UNCHANGED colExit
    /\ UNCHANGED <<colParses, colArgc, rlInput, rlPos, sqlPending, sqlDone>>

\* the callback of con.connect: exit 2 on an error, else rl.on("line")
ConnectCallback ==
    /\ UNCHANGED <<cvars, lvars, uvars>>
    /\ colPc = "connecting"
    /\ \E err \in BOOLEAN :
         IF err THEN ProcessExit(2)
         ELSE colPc' = "connected" /\ UNCHANGED colExit
    /\ UNCHANGED <<colParses, colArgc, rlInput, rlPos, sqlPending, sqlDone>>

\* readline emits the next line: the handler runs when it is registered,
\* and the line is gone when it is not
RlLine ==
    /\ UNCHANGED <<cvars, lvars, uvars>>
    /\ colPc \in {"connecting", "connected"}
    /\ rlPos <= Len(rlInput)
    /\ rlPos' = rlPos + 1
    /\ IF colPc = "connecting"
       THEN UNCHANGED <<sqlPending, colPc, colExit>>
       ELSE LET h == LineHandler(rlInput[rlPos])
            IN  IF h.throws
                THEN ProcessExit(1) /\ UNCHANGED sqlPending
                ELSE /\ sqlPending' = sqlPending \o h.queries
                     /\ UNCHANGED <<colPc, colExit>>
    /\ UNCHANGED <<colParses, colArgc, rlInput, sqlDone>>

\* the callback of the oldest queued insert: exit 3 on an error
QueryCallback ==
    /\ UNCHANGED <<cvars, lvars, uvars>>
    /\ colPc = "connected"
    /\ sqlPending # <<>>
    /\ sqlPending' = Tail(sqlPending)
    /\ \E err \in BOOLEAN :
         IF err THEN ProcessExit(3) /\ UNCHANGED sqlDone
         ELSE /\ sqlDone' = Append(sqlDone, Head(sqlPending))
              /\ UNCHANGED <<colPc, colExit>>
    /\ UNCHANGED <<colParses, colArgc, rlInput, rlPos>>

\* stdin has ended and readline has emitted every line: 'close', exit 0
RlClose ==
    /\ UNCHANGED <<cvars, lvars, uvars>>
    /\ colPc \in {"connecting", "connected"}
    /\ rlPos > Len(rlInput)
    /\ ProcessExit(0)
    /\ UNCHANGED <<colParses, colArgc, rlInput, rlPos, sqlPending, sqlDone>>

NextStdin ==
    \/ StdinStart
    \/ ConnectCallback
    \/ RlLine
    \/ QueryCallback
    \/ RlClose

InitStdinRun == InitStdin /\ CollectorIdle /\ LiveIdle /\ UpdateIdle

SpecStdin == InitStdinRun /\ [][NextStdin]_vars

-----------------------------------------------------------------------------
(* Claims about the collector that reads stdin *)

\* the inserts of the accepted lines among ls, one per line, in their order
RECURSIVE AcceptedInserts(_)
AcceptedInserts(ls) ==
    IF ls = <<>> THEN <<>>
    ELSE (IF \E v \in Stdin_accepted_endpoints :
               Includes(Field(Split(ls[1], "\t"), Stdin_endpointCol), v)
          THEN LineHandler(ls[1]).queries ELSE <<>>)
         \o AcceptedInserts(Tail(ls))

\* the process was started as the usage line says
UsageFollowed == colArgc = 5

\* C30: under every order of the events of stdin and of the database, each
\* line with an accepted endpoint causes exactly one insert, and the
\* process ends with 0 only after all of them completed; the process ends
\* otherwise only with the status of a failed connection (2), of a failed
\* insert (3), or of a line without endpoint field.
C30_AcceptedLinesInserted ==
    /\ (colPc = "exited" /\ colExit = 0) =>
         /\ sqlPending = <<>>
         /\ sqlDone = AcceptedInserts(rlInput)
    /\ (UsageFollowed /\ colPc \in {"connecting", "connected"}) =>
         sqlDone \o sqlPending = AcceptedInserts(Take(rlInput, rlPos - 1))
    /\ (UsageFollowed /\ colPc = "exited" /\ colExit = 1) =>
         \E k \in DOMAIN rlInput : LineHandler(rlInput[k]).throws

\* with line 65 closed: stdin ended before the connection was made, and the
\* process ended with 0 without any insert for two accepted lines
C30_LinesLostBeforeConnect ==
    /\ colParses
    /\ colPc = "exited"
    /\ colExit = 0
    /\ Len(AcceptedInserts(rlInput)) = 2
    /\ sqlDone = <<>>
    /\ sqlPending = <<>>

\* with line 65 closed: 'close' ended the process with 0 while an insert
\* was still queued
C30_ExitWhileInsertPending ==
    /\ colParses
    /\ colPc = "exited"
    /\ colExit = 0
    /\ sqlPending # <<>>
    /\ sqlDone \o sqlPending = AcceptedInserts(rlInput)

=============================================================================
